---- MODULE Spec2Model ----
(***************************************************************************)
(* Model of the reconciliation core of the listing-disclosure system       *)
(* (property_ad_system.py): the floor-label parser and matcher, the        *)
(* legal-use classifier and the area reconciler, and of the validation of  *)
(* a listing export against the registry and the message                   *)
(* (bank_info_validator.py).                                               *)
(*                                                                         *)
(* A Python str is a sequence of characters.  TLA+ strings are ASCII, so   *)
(* every Hangul syllable is written as its romanisation, one token per     *)
(* syllable (지 "ji", 하 "ha", 상 "sang", 층 "cheung", ...), and every     *)
(* other character as itself ("B", "1", " ", "-").  Distinct characters    *)
(* have distinct tokens.                                                   *)
(*                                                                         *)
(* Optional[T] is a sequence of length at most one: None is << >> and a    *)
(* value v is <<v>>.                                                       *)
(*                                                                         *)
(* An area is a whole number of hundredths of a square metre (50.0 m2 is   *)
(* 5000) and the comparisons of areas are exact.                           *)
(***************************************************************************)
EXTENDS Integers, Sequences, FiniteSets, TLC

VARIABLES
    floor_str,          \* argument of parse_floor_string / registry_floor_str of match_floor
    search_floor,       \* argument search_floor of match_floor
    floor_num,          \* Optional[int] returned by parse_floor_string
    is_match,           \* Optional[bool] returned by match_floor
    floor_pc,           \* "idle" | "ready" | "parsed" | "matched"
    api_usage_str,      \* argument api_usage_str of _classify_usage_master
    area_m2,            \* argument area_m2 of _classify_usage_master (Optional number)
    usage_result,       \* Optional (final_usage, show_usage_warning, show_usage_warning_point)
    usage_pc,           \* "idle" | "ready" | "done"
    parsed,             \* argument parsed of _compare_areas: area_m2, actual_area_m2, ho
    floor,              \* argument floor of _compare_areas and _get_floor_area_from_api (Optional[int])
    floor_result,       \* rows of the floor summary (floor_result['data'])
    area_result,        \* rows of the exclusive/shared area table (area_result['data'])
    unit_result,        \* rows of the unit table (unit_result['data'])
    _floor_search_info, \* attribute self._floor_search_info (Optional record)
    registry_area,      \* Optional area returned by a direct call of _get_floor_area_from_api
    area_comparison,    \* Optional dict returned by _compare_areas
    area_pc,            \* "idle" | "ready" | "looked_up" | "compared"
    runs,               \* the calls of _compare_areas in progress on one instance, each with its arguments,
                        \* its position and its result
    parsed_data,        \* argument parsed_data of the validators: the fields of the listing export
    building_data,      \* argument building_data of the validators: the title record of the registry
    kakao_data,         \* argument kakao_data of the validators: Optional fields of the message
    usage_judgment,     \* argument usage_judgment of validate: Optional result of the usage judgment
    item,               \* Optional row (name, status, message) a validator returned
    report,             \* Optional report (items, summary) validate returned
    bank_pc,            \* "idle" | "ready" | "returned" | "raised" | "validated" | "validate raised"
    selected_area,      \* attribute self.selected_area: Optional (area, source) the user picked
    result_area,        \* the area line of the result text: none, the choice of areas, or one area
    ui_pc,              \* "idle" | "shown" | "clicked" | "applied"
    authenticated,      \* st.session_state.authenticated
    auth_token,         \* st.session_state.auth_token: Optional token data (token, expiry)
    user_nickname,      \* st.session_state.user_nickname
    cookie_checked,     \* 'cookie_checked' in st.session_state
    cookie,             \* what load_auth_token reads from the browser: Optional (token data, nickname)
    now,                \* datetime.now(), in days
    auth_result         \* Optional[bool] returned by check_authentication in the current script run

vars == <<floor_str, search_floor, floor_num, is_match, floor_pc,
          api_usage_str, area_m2, usage_result, usage_pc,
          parsed, floor, floor_result, area_result, unit_result,
          _floor_search_info, registry_area, area_comparison, area_pc,
          runs, parsed_data, building_data, kakao_data, usage_judgment, item, report, bank_pc,
          selected_area, result_area, ui_pc,
          authenticated, auth_token, user_nickname, cookie_checked, cookie, now, auth_result>>

floor_vars == <<floor_str, search_floor, floor_num, is_match, floor_pc>>

usage_vars == <<api_usage_str, area_m2, usage_result, usage_pc>>

area_vars == <<parsed, floor, floor_result, area_result, unit_result,
               _floor_search_info, registry_area, area_comparison, area_pc, runs>>

bank_vars == <<parsed_data, building_data, kakao_data, usage_judgment, item, report, bank_pc>>

\* the state of the desktop window and of the web session
app_vars == <<selected_area, result_area, ui_pc,
              authenticated, auth_token, user_nickname, cookie_checked, cookie, now, auth_result>>

None == << >>

Some(v) == <<v>>

\* the area reconciler stands by while other operations run
AreaIdle ==
    /\ parsed = [area_m2 |-> None, actual_area_m2 |-> None, ho |-> << >>]
    /\ floor = None
    /\ floor_result = << >> /\ area_result = << >> /\ unit_result = << >>
    /\ _floor_search_info = None /\ registry_area = None /\ area_comparison = None
    /\ area_pc = "idle" /\ runs = << >>

\* the validators stand by while other operations run
BankIdle ==
    /\ parsed_data = << >> /\ building_data = << >> /\ kakao_data = None
    /\ usage_judgment = None /\ item = None /\ report = None /\ bank_pc = "idle"

\* no window is open and no web session has started
AppIdle ==
    /\ selected_area = None /\ result_area = None /\ ui_pc = "idle"
    /\ authenticated = FALSE /\ auth_token = None /\ user_nickname = None
    /\ cookie_checked = FALSE /\ cookie = None /\ now = 0 /\ auth_result = None

(***************************************************************************)
(* Bounds of the model.                                                    *)
(***************************************************************************)
\* longest floor label drawn as an input
MaxLabelLen == 4

\* largest floor number N of the label forms "지하N층", "BN", "N층", ...
MaxFloorNum == 35

(***************************************************************************)
(* Characters and the str / int / re primitives the code uses.             *)
(***************************************************************************)
Digits == <<"0", "1", "2", "3", "4", "5", "6", "7", "8", "9">>

IsDigit(c) == \E d \in 1..10 : Digits[d] = c

DigitVal(c) == (CHOOSE d \in 1..10 : Digits[d] = c) - 1

IsSpace(c) == c = " "

\* str.lower() of one character (only the Latin letters of the model change)
LowerChar(c) == CASE c = "B" -> "b" [] c = "F" -> "f" [] c = "P" -> "p" [] c = "C" -> "c" [] OTHER -> c

\* str.lower()
lower(s) == [i \in 1..Len(s) |-> LowerChar(s[i])]

\* re.IGNORECASE comparison of a pattern literal with a piece of the subject
EqIgnoreCase(a, b) == lower(a) = lower(b)

RECURSIVE lstrip(_)
lstrip(s) == IF s # << >> /\ IsSpace(s[1]) THEN lstrip(Tail(s)) ELSE s

RECURSIVE rstrip(_)
rstrip(s) == IF s # << >> /\ IsSpace(s[Len(s)]) THEN rstrip(SubSeq(s, 1, Len(s) - 1)) ELSE s

\* str.strip()
strip(s) == rstrip(lstrip(s))

RECURSIVE int(_)
\* int("012") = 12
int(ds) == IF ds = << >> THEN 0 ELSE 10 * int(SubSeq(ds, 1, Len(ds) - 1)) + DigitVal(ds[Len(ds)])

RECURSIVE StrNat(_)
StrNat(n) == IF n < 10 THEN <<Digits[n + 1]>> ELSE StrNat(n \div 10) \o <<Digits[(n % 10) + 1]>>

\* str(n) of an int
str(n) == IF n < 0 THEN <<"-">> \o StrNat(-n) ELSE StrNat(n)

abs(n) == IF n < 0 THEN -n ELSE n

\* `sub in s`
Contains(s, sub) == \E i \in 1..(Len(s) - Len(sub) + 1) : SubSeq(s, i, i + Len(sub) - 1) = sub

\* s.startswith(p)
startswith(s, p) == Len(s) >= Len(p) /\ SubSeq(s, 1, Len(p)) = p

\* one past the end of the run of whitespace starting at i (\s*)
RECURSIVE SkipSpaces(_, _)
SkipSpaces(s, i) == IF i <= Len(s) /\ IsSpace(s[i]) THEN SkipSpaces(s, i + 1) ELSE i

\* the last index of the run of digits starting at i, i - 1 when s[i] is no digit (\d+, greedy)
RECURSIVE DigitRunEnd(_, _)
DigitRunEnd(s, i) == IF i <= Len(s) /\ IsDigit(s[i]) THEN DigitRunEnd(s, i + 1) ELSE i - 1

Min(S) == CHOOSE x \in S : \A y \in S : x <= y

\* the pattern literal, under re.IGNORECASE, at position i of s
LitAt(s, i, lit) == i + Len(lit) - 1 <= Len(s) /\ EqIgnoreCase(SubSeq(s, i, i + Len(lit) - 1), lit)

\* the start positions at which  lit\s*(\d+)  matches
PrefixMatches(s, lit) == {i \in 1..Len(s) : LitAt(s, i, lit) /\ DigitRunEnd(s, SkipSpaces(s, i + Len(lit))) >= SkipSpaces(s, i + Len(lit))}

\* re.search(lit\s*(\d+), s, re.IGNORECASE): group 1 of the leftmost match, or None
SearchPrefix(s, lit) == IF PrefixMatches(s, lit) = {} THEN None ELSE LET i == Min(PrefixMatches(s, lit)) k == SkipSpaces(s, i + Len(lit)) IN Some(SubSeq(s, k, DigitRunEnd(s, k)))

\* the start positions at which  (\d+)\s*lit  matches
SuffixMatches(s, lit) == {i \in 1..Len(s) : IsDigit(s[i]) /\ LitAt(s, SkipSpaces(s, DigitRunEnd(s, i) + 1), lit)}

\* re.search((\d+)\s*lit, s, re.IGNORECASE): group 1 of the leftmost match, or None
SearchSuffix(s, lit) == IF SuffixMatches(s, lit) = {} THEN None ELSE LET i == Min(SuffixMatches(s, lit)) IN Some(SubSeq(s, i, DigitRunEnd(s, i)))

\* re.search(^(\d+)$, s)
SearchAllDigits(s) == IF s # << >> /\ \A i \in 1..Len(s) : IsDigit(s[i]) THEN Some(s) ELSE None

\* the first result that is not None, in list order (the `for pattern in ...` loops)
RECURSIVE FirstSome(_)
FirstSome(rs) == IF rs = << >> THEN None ELSE IF rs[1] # None THEN rs[1] ELSE FirstSome(Tail(rs))

(***************************************************************************)
(* parse_floor_string (property_ad_system.py 5391-5443)                    *)
(***************************************************************************)
\* basement_patterns: 지하\s*(\d+), B\s*(\d+), b\s*(\d+), each searched with re.IGNORECASE
basement_patterns(s) == <<SearchPrefix(s, <<"ji", "ha">>), SearchPrefix(s, <<"B">>), SearchPrefix(s, <<"b">>)>>

\* ground_patterns: 지상\s*(\d+), (\d+)\s*층, (\d+)\s*F, ^(\d+)$, each searched with re.IGNORECASE
ground_patterns(s) == <<SearchPrefix(s, <<"ji", "sang">>), SearchSuffix(s, <<"cheung">>), SearchSuffix(s, <<"F">>), SearchAllDigits(s)>>

\* BasementLevel with the sign of line 5427 lost
BasementLevel_NoSign(digits) == int(digits)

\* the level of a basement match: -floor_num
BasementLevel(digits) == -int(digits)

\* the level of an above-ground match: floor_num
GroundLevel(digits) == int(digits)

parse_floor_string(fs) ==
    IF fs = << >> THEN None
    ELSE LET s == strip(fs)
             b == FirstSome(basement_patterns(s))
             g == FirstSome(ground_patterns(s))
         IN IF b # None THEN Some(BasementLevel(b[1]))
            ELSE IF g # None THEN Some(GroundLevel(g[1]))
            ELSE None

(***************************************************************************)
(* match_floor (property_ad_system.py 5445-5520)                           *)
(***************************************************************************)
\* re.sub(r'[^0-9]', '', s)
DigitsOnly(s) == SelectSeq(s, IsDigit)

\* '지하' in s or 'B' in s or 'b' in s
HasBasementMark(s) == Contains(s, <<"ji", "ha">>) \/ Contains(s, <<"B">>) \/ Contains(s, <<"b">>)

\* the branch "1층 특수 처리" (lines 5513-5518), taken when search_floor = 1
FirstFloorSpecial(s) ==
    IF Contains(s, <<"ji", "sang", "1">>) \/ Contains(s, <<"1", "cheung">>)
    THEN ~Contains(s, <<"1", "1", "cheung">>) /\ ~Contains(s, <<"2", "1", "cheung">>)
    ELSE s = <<"1">>

\* the above-ground branch (lines 5485-5518): the if / elif chain
MatchGround(n, s) ==
    LET t == str(n)
        tc == t \o <<"cheung">>
    IN IF HasBasementMark(s) THEN FALSE
       ELSE IF s = t THEN TRUE
       ELSE IF s = tc THEN TRUE
       ELSE IF s = <<"ji", "sang">> \o t \/ s = <<"ji", "sang">> \o tc THEN TRUE
       ELSE IF s = t \o <<"F">> THEN TRUE
       ELSE IF DigitsOnly(s) = str(abs(n))
            THEN (IF n = 1 THEN Contains(s, <<"ji", "sang">>) \/ s = <<"1">> ELSE TRUE)
       ELSE IF startswith(s, tc)
            THEN Len(s) = Len(tc) \/ (Len(s) > Len(tc) /\ ~IsDigit(s[Len(tc) + 1]))
       ELSE IF n = 1 THEN FirstFloorSpecial(s)
       ELSE FALSE

\* the basement branch (lines 5478-5482)
MatchBasement(n, s) == HasBasementMark(s) /\ DigitsOnly(s) = str(abs(n))

match_floor(n, registry_floor_str) ==
    IF registry_floor_str = << >> THEN FALSE
    ELSE LET s == strip(registry_floor_str)
         IN IF n < 0 THEN MatchBasement(n, s) ELSE MatchGround(n, s)

(***************************************************************************)
(* Floor labels: the inputs and the two operations as steps.               *)
(***************************************************************************)
\* the characters floor labels are drawn from: 지 하 상 층 B b F - space and digits
FloorChars == {"ji", "ha", "sang", "cheung", "B", "b", "F", "-", " ", "0", "1", "2", "3"}

\* every label of at most MaxLabelLen characters
FloorLabels == UNION {[1..k -> FloorChars] : k \in 0..MaxLabelLen}

\* the levels match_floor is asked for
SearchFloors == {-3, -2, -1, 0, 1, 2, 3}

\* the classifier stands by while the floor operations run
UsageIdle == api_usage_str = << >> /\ area_m2 = None /\ usage_result = None /\ usage_pc = "idle"

InitFloor ==
    /\ floor_str \in FloorLabels
    /\ search_floor = 0
    /\ floor_num = None
    /\ is_match = None
    /\ floor_pc = "ready"
    /\ UsageIdle
    /\ AreaIdle
    /\ BankIdle
    /\ AppIdle

\* a call of parse_floor_string(floor_str)
ParseFloorString ==
    /\ floor_pc = "ready"
    /\ floor_num' = parse_floor_string(floor_str)
    /\ floor_pc' = "parsed"
    /\ UNCHANGED <<floor_str, search_floor, is_match>>
    /\ UNCHANGED usage_vars
    /\ UNCHANGED area_vars
    /\ UNCHANGED bank_vars
    /\ UNCHANGED app_vars

\* a call of match_floor(n, floor_str) on the label just parsed
MatchFloor ==
    /\ floor_pc = "parsed"
    /\ \E n \in SearchFloors :
        /\ search_floor' = n
        /\ is_match' = Some(match_floor(n, floor_str))
    /\ floor_pc' = "matched"
    /\ UNCHANGED <<floor_str, floor_num>>
    /\ UNCHANGED usage_vars
    /\ UNCHANGED area_vars
    /\ UNCHANGED bank_vars
    /\ UNCHANGED app_vars

NextParse == ParseFloorString

SpecParse == InitFloor /\ [][NextParse]_vars

NextFloor == ParseFloorString \/ MatchFloor

SpecFloor == InitFloor /\ [][NextFloor]_vars

(***************************************************************************)
(* _classify_usage_master (property_ad_system.py 1065-1469)                *)
(***************************************************************************)
\* any(kw in u for kw in kws)
AnyIn(u, kws) == \E k \in 1..Len(kws) : Contains(u, kws[k])

\* the index of the leftmost occurrence of old in s, 0 when there is none
FindFirst(s, old) == IF Contains(s, old) THEN Min({i \in 1..(Len(s) - Len(old) + 1) : SubSeq(s, i, i + Len(old) - 1) = old}) ELSE 0

\* str.replace(old, new): every non-overlapping occurrence, left to right
RECURSIVE replace(_, _, _)
replace(s, old, new) == IF FindFirst(s, old) = 0 THEN s ELSE SubSeq(s, 1, FindFirst(s, old) - 1) \o new \o replace(SubSeq(s, FindFirst(s, old) + Len(old), Len(s)), old, new)

\* the returned tuple (final_usage, show_usage_warning, show_usage_warning_point)
Result(usage, warning, point) == [final_usage |-> usage, show_usage_warning |-> warning, show_usage_warning_point |-> point]

\* the legal-use categories the classifier returns, as the strings of the source
Category(name) ==
    CASE name = "Type1" -> <<"je", "1", "jong", " ", "geun", "rin", "saeng", "hwal", "si", "seol">>  \* '제1종 근린생활시설'
      [] name = "Type2" -> <<"je", "2", "jong", " ", "geun", "rin", "saeng", "hwal", "si", "seol">>  \* '제2종 근린생활시설'
      [] name = "Sales" -> <<"pan", "mae", "si", "seol">>  \* '판매시설'
      [] name = "Business" -> <<"eob", "mu", "si", "seol">>  \* '업무시설'
      [] name = "Education" -> <<"gyo", "yug", "yeon", "gu", "si", "seol">>  \* '교육연구시설'
      [] name = "Sports" -> <<"un", "dong", "si", "seol">>  \* '운동시설'
      [] name = "Amusement" -> <<"wi", "rag", "si", "seol">>  \* '위락시설'
      [] name = "Detached" -> <<"dan", "dog", "ju", "taeg">>  \* '단독주택'
      [] name = "MultiUnit" -> <<"gong", "dong", "ju", "taeg">>  \* '공동주택'
      [] name = "Culture" -> <<"mun", "hwa", " ", "mich", " ", "jib", "hoe", "si", "seol">>  \* '문화 및 집회시설'
      [] name = "Religious" -> <<"jong", "gyo", "si", "seol">>  \* '종교시설'
      [] name = "Transport" -> <<"un", "su", "si", "seol">>  \* '운수시설'
      [] name = "Medical" -> <<"ui", "ryo", "si", "seol">>  \* '의료시설'
      [] name = "Welfare" -> <<"no", "yu", "ja", "si", "seol">>  \* '노유자시설'
      [] name = "Training" -> <<"su", "ryeon", "si", "seol">>  \* '수련시설'
      [] name = "Lodging" -> <<"sug", "bag", "si", "seol">>  \* '숙박시설'
      [] name = "Factory" -> <<"gong", "jang">>  \* '공장'
      [] name = "Warehouse" -> <<"chang", "go", "si", "seol">>  \* '창고시설'
      [] name = "Hazardous" -> <<"wi", "heom", "mul", " ", "jeo", "jang", " ", "mich", " ", "cheo", "ri", "si", "seol">>  \* '위험물 저장 및 처리시설'
      [] name = "Automotive" -> <<"ja", "dong", "cha", " ", "gwan", "ryeon", "si", "seol">>  \* '자동차 관련시설'
      [] name = "AnimalPlant" -> <<"dong", "mul", " ", "mich", " ", "sig", "mul", " ", "gwan", "ryeon", "si", "seol">>  \* '동물 및 식물 관련시설'
      [] name = "Waste" -> <<"bun", "nyo", " ", "mich", " ", "sseu", "re", "gi", " ", "cheo", "ri", "si", "seol">>  \* '분뇨 및 쓰레기 처리시설'
      [] name = "Military" -> <<"gyo", "jeong", " ", "mich", " ", "gun", "sa", "si", "seol">>  \* '교정 및 군사시설'
      [] name = "Broadcast" -> <<"bang", "song", "tong", "sin", "si", "seol">>  \* '방송통신시설'
      [] name = "Power" -> <<"bal", "jeon", "si", "seol">>  \* '발전시설'
      [] name = "Cemetery" -> <<"myo", "ji", " ", "gwan", "ryeon", " ", "si", "seol">>  \* '묘지 관련 시설'
      [] name = "TourismRest" -> <<"gwan", "gwang", " ", "hyu", "ge", "si", "seol">>  \* '관광 휴게시설'
      [] name = "Funeral" -> <<"jang", "rye", "sig", "jang">>  \* '장례식장'

CategoryNames == {"Type1", "Type2", "Sales", "Business", "Education", "Sports", "Amusement", "Detached", "MultiUnit", "Culture", "Religious", "Transport", "Medical", "Welfare", "Training", "Lodging", "Factory", "Warehouse", "Hazardous", "Automotive", "AnimalPlant", "Waste", "Military", "Broadcast", "Power", "Cemetery", "TourismRest", "Funeral"}

LegalCategories == {Category(n) : n \in CategoryNames}

\* "확인요망": the label or the area is missing
CheckNeeded == <<"hwag", "in", "yo", "mang">>

\* '__NEED_USAGE_SELECTION__': a bare 점포, the caller asks the user
NeedUsageSelection == <<"__NEED_USAGE_SELECTION__">>

\* FoldOffice with the replace of line 1097 left out
FoldOffice_Skipped(s) == s

\* api_usage_str.replace('사무실', '사무소') (lines 1095-1097)
FoldOffice(s) == replace(s, <<"sa", "mu", "sil">>, <<"sa", "mu", "so">>)

\* truthiness of area_m2: None and 0 are false
HasArea(a) == a # None /\ a[1] # 0

\* float(area_m2) if area_m2 else 0
AreaOf(a) == IF HasArea(a) THEN a[1] ELSE 0

\* IsShopAndResidence recognising only the literal '점포 및 주택'
IsShopAndResidence_PhraseOnly(s) == Contains(s, <<"jeom", "po", " ", "mich", " ", "ju", "taeg">>)

\* the compound shop-and-residence label (lines 1101-1102)
IsShopAndResidence(s) == Contains(s, <<"jeom", "po", " ", "mich", " ", "ju", "taeg">>) \/ Contains(s, <<"ju", "taeg", " ", "mich", " ", "jeom", "po">>) \/ (Contains(s, <<"jeom", "po">>) /\ Contains(s, <<"ju", "taeg">>) /\ Contains(s, <<"mich">>))

\* api_usage_str.strip() == '점포' (line 1106)
IsBareShop(s) == strip(s) = <<"jeom", "po">>

\* a label that already names the legal category (lines 1110-1114)
LegalName(s) ==
    IF Contains(s, <<"je", "1", "jong", "geun", "rin", "saeng", "hwal", "si", "seol">>) \/ Contains(s, <<"je", "1", "jong", " ", "geun", "rin", "saeng", "hwal", "si", "seol">>) THEN Some(Category("Type1"))
    ELSE IF Contains(s, <<"je", "2", "jong", "geun", "rin", "saeng", "hwal", "si", "seol">>) \/ Contains(s, <<"je", "2", "jong", " ", "geun", "rin", "saeng", "hwal", "si", "seol">>) THEN Some(Category("Type2"))
    ELSE None

\* RetailFirst with the limit of line 1124 off by one (area <= 1000)
RetailFirst_OffByOne(area) == IF area <= 1000 THEN Category("Type1") ELSE Category("Sales")

\* the retail limit of the first table: 소매점 below it is 제1종, from it on 판매시설 (lines 1123-1127)
RetailFirst(area) == IF area < 1000 THEN Category("Type1") ELSE Category("Sales")

\* 사무소: below 30 제1종, below 500 제2종, else 업무시설 (lines 1141-1147)
OfficeFirst(area) == IF area < 30 THEN Category("Type1") ELSE IF area < 500 THEN Category("Type2") ELSE Category("Business")

\* the floor-usage table evaluated first (lines 1118-1186), u = api_usage_str.lower(); None when no rule fires
FloorUsageTable(u, area) ==
    \* 소매점
    IF Contains(u, <<"so", "mae", "jeom">>) THEN Some(RetailFirst(area))
    \* 휴게음식점, 커피숍, 제과점, 카페
    ELSE IF AnyIn(u, <<<<"hyu", "ge", "eum", "sig", "jeom">>, <<"keo", "pi", "syob">>, <<"je", "gwa", "jeom">>, <<"ka", "pe">>>>) THEN Some((IF area < 300 THEN Category("Type1") ELSE Category("Type2")))
    \* 일반음식점
    ELSE IF Contains(u, <<"il", "ban", "eum", "sig", "jeom">>) THEN Some(Category("Type2"))
    \* 사무소
    ELSE IF Contains(u, <<"sa", "mu", "so">>) THEN Some(OfficeFirst(area))
    \* 학원, 교습소
    ELSE IF AnyIn(u, <<<<"hag", "won">>, <<"gyo", "seub", "so">>>>) THEN Some((IF area < 500 THEN Category("Type2") ELSE Category("Education")))
    \* 노래연습장, 노래방
    ELSE IF Contains(u, <<"no", "rae", "yeon", "seub", "jang">>) \/ Contains(u, <<"no", "rae", "bang">>) THEN Some(Category("Type2"))
    \* 의원, 치과, 한의원
    ELSE IF AnyIn(u, <<<<"ui", "won">>, <<"chi", "gwa">>, <<"han", "ui", "won">>>>) THEN Some(Category("Type1"))
    \* 이용원, 미용원, 세탁소, 미용실, 이발소
    ELSE IF AnyIn(u, <<<<"i", "yong", "won">>, <<"mi", "yong", "won">>, <<"se", "tag", "so">>, <<"mi", "yong", "sil">>, <<"i", "bal", "so">>>>) THEN Some(Category("Type1"))
    \* 체육도장, 헬스장
    ELSE IF Contains(u, <<"che", "yug", "do", "jang">>) \/ Contains(u, <<"hel", "seu", "jang">>) THEN Some((IF area < 500 THEN Category("Type1") ELSE Category("Sports")))
    \* pc방, 게임장
    ELSE IF Contains(u, <<"p", "c", "bang">>) \/ Contains(u, <<"ge", "im", "jang">>) THEN Some((IF area < 500 THEN Category("Type2") ELSE Category("Amusement")))
    ELSE None

\* commercial_keywords (lines 1196-1198)
commercial_keywords == <<<<"jeom", "po">>, <<"so", "mae", "jeom">>, <<"syu", "peo", "ma", "kes">>, <<"ma", "teu">>, <<"pyeon", "ui", "jeom">>, <<"sang", "jeom">>, <<"mae", "jang">>, <<"sa", "mu", "so">>, <<"sa", "mu", "sil">>, <<"hyu", "ge", "eum", "sig", "jeom">>, <<"il", "ban", "eum", "sig", "jeom">>, <<"ka", "pe">>, <<"keo", "pi", "syob">>, <<"hag", "won">>, <<"gyo", "seub", "so">>, <<"no", "rae", "yeon", "seub", "jang">>, <<"ui", "won">>, <<"byeong", "won">>, <<"mi", "yong", "won">>, <<"i", "yong", "won">>>>

has_commercial_keyword(u) == AnyIn(u, commercial_keywords)

\* 1. 주택 판정: 단독주택, then 공동주택 (lines 1203-1226)
Residential(u) ==
    IF has_commercial_keyword(u) THEN None
    ELSE IF AnyIn(u, <<<<"dan", "dog">>, <<"dan", "dog", "ju", "taeg">>, <<"da", "jung">>, <<"da", "jung", "ju", "taeg">>, <<"da", "ga", "gu">>, <<"da", "ga", "gu", "ju", "taeg">>, <<"gong", "gwan">>>>) THEN Some(Category("Detached"))
    ELSE IF AnyIn(u, <<<<"a", "pa", "teu">>, <<"yeon", "rib">>, <<"yeon", "rib", "ju", "taeg">>, <<"da", "se", "dae">>, <<"da", "se", "dae", "ju", "taeg">>, <<"gi", "sug", "sa">>, <<"gong", "dong", "ju", "taeg">>>>) THEN Some(Category("MultiUnit"))
    ELSE None

\* the retail keywords of rules 2 and 7 (lines 1231-1238, 1333-1340)
RetailKeywords == <<<<"so", "mae", "jeom">>, <<"syu", "peo", "ma", "kes">>, <<"ma", "teu">>, <<"pyeon", "ui", "jeom">>, <<"sang", "jeom">>, <<"mae", "jang">>, <<"il", "yong", "pum">>>>

\* 2. 제1종 근린생활시설 (lines 1228-1269): any of its seven tests
IsType1(u, area) ==
    \* 소매점 ... (1000 미만)
    \/ (AnyIn(u, RetailKeywords) /\ area < 1000)
    \* 휴게음식점/카페/제과점 (300 미만)
    \/ (AnyIn(u, <<<<"hyu", "ge", "eum", "sig", "jeom">>, <<"keo", "pi", "syob">>, <<"je", "gwa", "jeom">>, <<"ka", "pe">>>>) /\ area < 300)
    \* 이용원, 미용원, 목욕장, 세탁소
    \/ (AnyIn(u, <<<<"i", "yong", "won">>, <<"mi", "yong", "won">>, <<"mog", "yog", "jang">>, <<"se", "tag", "so">>, <<"mi", "yong", "sil">>, <<"i", "bal", "so">>>>))
    \* 의원, 치과의원, 한의원, 산후조리원
    \/ (AnyIn(u, <<<<"ui", "won">>, <<"chi", "gwa", "ui", "won">>, <<"han", "ui", "won">>, <<"san", "hu", "jo", "ri", "won">>>>))
    \* 탁구장/체육도장 (500 미만)
    \/ (AnyIn(u, <<<<"tag", "gu", "jang">>, <<"che", "yug", "do", "jang">>>>) /\ area < 500)
    \* 공공업무시설 (1000 미만)
    \/ (Contains(u, <<"gong", "gong", "eob", "mu", "si", "seol">>) /\ area < 1000)
    \* 사무소/중개사무소 (30 미만)
    \/ (AnyIn(u, <<<<"sa", "mu", "so">>, <<"jung", "gae", "sa", "mu", "so">>>>) /\ area < 30)

\* 3. 제2종 근린생활시설 (lines 1271-1315): any of its thirteen tests
IsType2(u, area) ==
    \* 공연장/종교집회장 (500 미만)
    \/ (AnyIn(u, <<<<"gong", "yeon", "jang">>, <<"jong", "gyo", "jib", "hoe", "jang">>>>) /\ area < 500)
    \* 자동차영업소 (1000 미만)
    \/ (Contains(u, <<"ja", "dong", "cha", "yeong", "eob", "so">>) /\ area < 1000)
    \* 서점, 사진관, 동물병원
    \/ (AnyIn(u, <<<<"seo", "jeom">>, <<"sa", "jin", "gwan">>, <<"dong", "mul", "byeong", "won">>>>))
    \* PC방/게임장 (500 미만)
    \/ (AnyIn(u, <<<<"p", "c", "bang">>, <<"ge", "im", "jang">>>>) /\ area < 500)
    \* 휴게음식점/카페/제과점 (300 이상)
    \/ (AnyIn(u, <<<<"hyu", "ge", "eum", "sig", "jeom">>, <<"keo", "pi", "syob">>, <<"je", "gwa", "jeom">>, <<"ka", "pe">>>>) /\ area >= 300)
    \* 일반음식점, 안마시술소, 노래연습장, 노래방
    \/ (AnyIn(u, <<<<"il", "ban", "eum", "sig", "jeom">>, <<"an", "ma", "si", "sul", "so">>, <<"no", "rae", "yeon", "seub", "jang">>, <<"no", "rae", "bang">>>>))
    \* 단란주점 (150 미만)
    \/ (Contains(u, <<"dan", "ran", "ju", "jeom">>) /\ area < 150)
    \* 학원/교습소 (500 미만)
    \/ (AnyIn(u, <<<<"hag", "won">>, <<"gyo", "seub", "so">>>>) /\ area < 500)
    \* 운동시설 (500 미만)
    \/ (AnyIn(u, <<<<"un", "dong", "si", "seol">>, <<"che", "yug", "si", "seol">>>>) /\ area < 500)
    \* 사무소/중개사무소 (30 이상 500 미만)
    \/ (AnyIn(u, <<<<"sa", "mu", "so">>, <<"jung", "gae", "sa", "mu", "so">>>>) /\ 30 <= area /\ area < 500)
    \* 고시원 (500 미만)
    \/ (Contains(u, <<"go", "si", "won">>) /\ area < 500)
    \* 제조업소/수리점 (500 미만)
    \/ (AnyIn(u, <<<<"je", "jo", "eob", "so">>, <<"su", "ri", "jeom">>>>) /\ area < 500)

\* the 28-category table in source order (lines 1228-1466); None when no rule fires
CategoryTable(u, area) ==
    \* 2. 제1종 근린생활시설 (lines 1228-1269)
    IF IsType1(u, area) THEN Some(Category("Type1"))
    \* 3. 제2종 근린생활시설 (lines 1271-1315)
    ELSE IF IsType2(u, area) THEN Some(Category("Type2"))
    \* 5. 문화 및 집회시설 (lines 1318-1321)
    ELSE IF (AnyIn(u, <<<<"gong", "yeon", "jang">>, <<"jib", "hoe", "jang">>>>) /\ area >= 300) \/ (AnyIn(u, <<<<"gwan", "ram", "jang">>>>) /\ area >= 1000) \/ AnyIn(u, <<<<"jeon", "si", "jang">>, <<"dong", "sig", "mul", "won">>>>) THEN Some(Category("Culture"))
    \* 6. 종교시설 (lines 1324-1325)
    ELSE IF AnyIn(u, <<<<"jong", "gyo", "jib", "hoe", "jang">>, <<"bong", "an", "dang">>>>) /\ area >= 300 THEN Some(Category("Religious"))
    \* 7. 판매시설 (lines 1328-1346)
    ELSE IF AnyIn(u, <<<<"nong", "su", "san", "mul", "do", "mae", "si", "jang">>, <<"dae", "gyu", "mo", "jeom", "po">>>>) \/ (AnyIn(u, RetailKeywords) /\ area >= 1000) \/ (AnyIn(u, <<<<"o", "rag", "sil">>, <<"p", "c", "bang">>, <<"ge", "im", "jang">>>>) /\ area >= 500) THEN Some(Category("Sales"))
    \* 8. 운수시설 (lines 1349-1350)
    ELSE IF AnyIn(u, <<<<"yeo", "gaeg", "ja", "dong", "cha", "teo", "mi", "neol">>, <<"cheol", "do">>, <<"gong", "hang">>, <<"hang", "man", "si", "seol">>>>) THEN Some(Category("Transport"))
    \* 9. 의료시설 (lines 1353-1363)
    ELSE IF AnyIn(u, <<<<"byeong", "won">>, <<"jong", "hab", "byeong", "won">>, <<"chi", "gwa", "byeong", "won">>, <<"han", "bang", "byeong", "won">>, <<"gyeog", "ri", "byeong", "won">>, <<"jeon", "yeom", "byeong", "won">>, <<"jeong", "sin", "byeong", "won">>, <<"yo", "yang", "so">>>>) THEN Some(Category("Medical"))
    \* 10. 교육연구시설 (lines 1366-1368)
    ELSE IF AnyIn(u, <<<<"hag", "gyo">>, <<"gyo", "yug", "won">>, <<"yeon", "gu", "so">>, <<"do", "seo", "gwan">>>>) \/ (Contains(u, <<"sa", "seol", "gang", "seub", "so">>) /\ ~Contains(u, <<"geun", "saeng">>) /\ ~Contains(u, <<"mu", "do">>)) THEN Some(Category("Education"))
    \* 11. 노유자시설 (lines 1371-1372)
    ELSE IF AnyIn(u, <<<<"a", "dong", "gwan", "ryeon", "si", "seol">>, <<"no", "in", "bog", "ji", "si", "seol">>, <<"sa", "hoe", "bog", "ji", "si", "seol">>>>) THEN Some(Category("Welfare"))
    \* 12. 수련시설 (lines 1375-1376)
    ELSE IF AnyIn(u, <<<<"cheong", "so", "nyeon", "su", "ryeon", "gwan">>, <<"su", "ryeon", "won">>, <<"ya", "yeong", "jang">>, <<"yu", "seu", "ho", "seu", "tel">>>>) THEN Some(Category("Training"))
    \* 13. 운동시설 (lines 1379-1381)
    ELSE IF (AnyIn(u, <<<<"tag", "gu", "jang">>, <<"che", "yug", "do", "jang">>, <<"bol", "ring", "jang">>>>) /\ area >= 500) \/ (AnyIn(u, <<<<"che", "yug", "gwan">>, <<"un", "dong", "jang">>>>) /\ area >= 1000) THEN Some(Category("Sports"))
    \* 14. 업무시설 (lines 1384-1386)
    ELSE IF AnyIn(u, <<<<"gug", "ga", "cheong", "sa">>, <<"ji", "ja", "che", "cheong", "sa">>, <<"o", "pi", "seu", "tel">>>>) \/ (AnyIn(u, <<<<"geum", "yung", "eob", "so">>, <<"sa", "mu", "so">>>>) /\ area >= 500) THEN Some(Category("Business"))
    \* 15. 숙박시설 (lines 1389-1391)
    ELSE IF AnyIn(u, <<<<"ho", "tel">>, <<"yeo", "gwan">>, <<"yeo", "in", "sug">>>>) \/ (Contains(u, <<"go", "si", "won">>) /\ area >= 500) THEN Some(Category("Lodging"))
    \* 16. 위락시설 (lines 1394-1396)
    ELSE IF AnyIn(u, <<<<"yu", "heung", "eum", "sig", "jeom">>, <<"mu", "do", "jang">>>>) \/ (Contains(u, <<"dan", "ran", "ju", "jeom">>) /\ area >= 150) THEN Some(Category("Amusement"))
    \* 17. 공장 (lines 1399-1400)
    ELSE IF AnyIn(u, <<<<"je", "jo">>, <<"ga", "gong">>, <<"su", "ri">>>>) /\ area >= 500 THEN Some(Category("Factory"))
    \* 18. 창고시설 (lines 1403-1404)
    ELSE IF AnyIn(u, <<<<"il", "ban", "chang", "go">>, <<"naeng", "jang", "chang", "go">>, <<"naeng", "dong", "chang", "go">>, <<"mul", "ryu", "teo", "mi", "neol">>>>) THEN Some(Category("Warehouse"))
    \* 19. 위험물 저장 및 처리시설 (lines 1407-1413)
    ELSE IF AnyIn(u, <<<<"ju", "yu", "so">>, <<"seog", "yu", "pan", "mae", "so">>, <<"aeg", "hwa", "ga", "seu", "chung", "jeon", "so">>, <<"wi", "heom", "mul", "je", "jo", "so">>>>) THEN Some(Category("Hazardous"))
    \* 20. 자동차 관련시설 (lines 1416-1424)
    ELSE IF AnyIn(u, <<<<"ju", "cha", "jang">>, <<"se", "cha", "jang">>, <<"pye", "cha", "jang">>, <<"geom", "sa", "jang">>, <<"jeong", "bi", "gong", "jang">>, <<"jeong", "bi", "hag", "won">>>>) THEN Some(Category("Automotive"))
    \* 21. 동물 및 식물 관련시설 (lines 1427-1434)
    ELSE IF AnyIn(u, <<<<"chug", "sa">>, <<"do", "chug", "jang">>, <<"jag", "mul", "jae", "bae", "sa">>, <<"jong", "myo", "bae", "yang", "si", "seol">>, <<"on", "sil">>>>) THEN Some(Category("AnimalPlant"))
    \* 22. 분뇨 및 쓰레기 처리시설 (lines 1437-1438)
    ELSE IF AnyIn(u, <<<<"go", "mul", "sang">>, <<"pye", "gi", "mul", "jae", "hwal", "yong">>, <<"pye", "gi", "mul", "gam", "ryang", "hwa">>>>) THEN Some(Category("Waste"))
    \* 23. 교정 및 군사시설 (lines 1441-1442)
    ELSE IF AnyIn(u, <<<<"gyo", "jeong", "si", "seol">>, <<"so", "nyeon", "won">>, <<"gug", "bang", "si", "seol">>, <<"gun", "sa", "si", "seol">>>>) THEN Some(Category("Military"))
    \* 24. 방송통신시설 (lines 1445-1446)
    ELSE IF AnyIn(u, <<<<"bang", "song", "gug">>, <<"chwal", "yeong", "so">>, <<"tong", "sin", "yong", "si", "seol">>>>) THEN Some(Category("Broadcast"))
    \* 25. 발전시설 (lines 1449-1450)
    ELSE IF Contains(u, <<"bal", "jeon", "so">>) THEN Some(Category("Power"))
    \* 26. 묘지 관련 시설 (lines 1453-1458): (A and B) or C
    ELSE IF (AnyIn(u, <<<<"hwa", "jang", "si", "seol">>, <<"bong", "an", "dang">>>>) /\ ~Contains(u, <<"jong", "gyo", "si", "seol">>)) \/ AnyIn(u, <<<<"myo", "ji", "bu", "su", "geon", "chug", "mul">>>>) THEN Some(Category("Cemetery"))
    \* 27. 관광 휴게시설 (lines 1461-1462)
    ELSE IF AnyIn(u, <<<<"ya", "oe", "eum", "ag", "dang">>, <<"ya", "oe", "geug", "jang">>, <<"eo", "rin", "i", "hoe", "gwan">>, <<"hyu", "ge", "so">>>>) THEN Some(Category("TourismRest"))
    \* 28. 장례식장 (lines 1465-1466)
    ELSE IF Contains(u, <<"jang", "rye", "sig", "jang">>) THEN Some(Category("Funeral"))
    ELSE None

\* SecondStage returning the unclassified label without the warning flag
SecondStage_NoWarning(s, area) == Result(s, FALSE, FALSE)

\* the rules after the guard of line 1189: residential first, then the table, then the
\* unclassified fallback that returns the label with the warning flag (line 1469)
SecondStage(s, area) ==
    LET u == lower(s)
        r == Residential(u)
        t == CategoryTable(u, area)
    IN IF r # None THEN Result(r[1], FALSE, FALSE)
       ELSE IF t # None THEN Result(t[1], FALSE, FALSE)
       ELSE Result(s, TRUE, FALSE)

\* the body after the fold of lines 1095-1097, s the folded label
ClassifyFolded(s, a) ==
    IF s # << >> /\ IsShopAndResidence(s) THEN Result(s, TRUE, FALSE)
    ELSE IF s # << >> /\ IsBareShop(s) THEN Result(NeedUsageSelection, FALSE, FALSE)
    ELSE IF s # << >> /\ LegalName(s) # None THEN Result(LegalName(s)[1], FALSE, FALSE)
    ELSE IF s # << >> /\ HasArea(a) /\ FloorUsageTable(lower(s), AreaOf(a)) # None
         THEN Result(FloorUsageTable(lower(s), AreaOf(a))[1], FALSE, FALSE)
    ELSE IF s = << >> \/ ~HasArea(a) THEN Result(CheckNeeded, FALSE, FALSE)
    ELSE SecondStage(s, AreaOf(a))

\* _classify_usage_master(api_usage_str, area_m2, ...): the other arguments are never read
_classify_usage_master(label, a) == ClassifyFolded(IF label # << >> THEN FoldOffice(label) ELSE label, a)


(***************************************************************************)
(* Usage labels: the inputs and the classification as a step.              *)
(***************************************************************************)
\* most terms of a usage label drawn as an input
MaxTerms == 2

\* the terms usage labels are made of:
\* '소매점', '일반음식점', '점포', ' 점포 ', '주택', '사무실', '사무소', '판매시설', '대규모점포', '매장', '서점', '고시원', '학원', '단독주택', '아파트', '제2종근린생활시설', '창고'
UsageTerms == {<<"so", "mae", "jeom">>, <<"il", "ban", "eum", "sig", "jeom">>, <<"jeom", "po">>, <<" ", "jeom", "po", " ">>, <<"ju", "taeg">>, <<"sa", "mu", "sil">>, <<"sa", "mu", "so">>, <<"pan", "mae", "si", "seol">>, <<"dae", "gyu", "mo", "jeom", "po">>, <<"mae", "jang">>, <<"seo", "jeom">>, <<"go", "si", "won">>, <<"hag", "won">>, <<"dan", "dog", "ju", "taeg">>, <<"a", "pa", "teu">>, <<"je", "2", "jong", "geun", "rin", "saeng", "hwal", "si", "seol">>, <<"chang", "go">>}

\* what joins two terms: ", " (as _judge_usage joins api_usage and etc_usage) and " 및 "
Joiners == {<<",", " ">>, <<" ", "mich", " ">>}

\* the labels of exactly k terms
RECURSIVE LabelsOf(_)
LabelsOf(k) == IF k = 0 THEN {<< >>} ELSE IF k = 1 THEN UsageTerms ELSE {l \o j \o t : l \in LabelsOf(k - 1), j \in Joiners, t \in UsageTerms}

\* the missing label (None or '') and every label of at most MaxTerms terms
UsageLabels == UNION {LabelsOf(k) : k \in 0..MaxTerms}

\* the area thresholds of the rules the terms above reach (30, 500, 1000 m2)
AreaThresholds == {30, 500, 1000}

\* a missing area, a zero area, and an area just below and at each threshold
Areas == {None, Some(0), Some(1), Some(1500)} \cup {Some(t - 1) : t \in AreaThresholds} \cup {Some(t) : t \in AreaThresholds}

\* the floor operations stand by while the classifier runs
FloorIdle == floor_str = << >> /\ search_floor = 0 /\ floor_num = None /\ is_match = None /\ floor_pc = "idle"

InitUsage ==
    /\ api_usage_str \in UsageLabels
    /\ area_m2 \in Areas
    /\ usage_result = None
    /\ usage_pc = "ready"
    /\ FloorIdle
    /\ AreaIdle
    /\ BankIdle
    /\ AppIdle

\* a call of _classify_usage_master(api_usage_str, area_m2, ...)
ClassifyUsage ==
    /\ usage_pc = "ready"
    /\ usage_result' = Some(_classify_usage_master(api_usage_str, area_m2))
    /\ usage_pc' = "done"
    /\ UNCHANGED <<api_usage_str, area_m2>>
    /\ UNCHANGED floor_vars
    /\ UNCHANGED area_vars
    /\ UNCHANGED bank_vars
    /\ UNCHANGED app_vars

NextUsage == ClassifyUsage

SpecUsage == InitUsage /\ [][NextUsage]_vars

(***************************************************************************)
(* Claims about parse_floor_string and match_floor.                        *)
(***************************************************************************)
\* the label forms of floor number N
Form_JihaNCheung(N) == <<"ji", "ha">> \o str(N) \o <<"cheung">>

Form_JiNCheung(N) == <<"ji">> \o str(N) \o <<"cheung">>

Form_BN(N) == <<"B">> \o str(N)

Form_bN(N) == <<"b">> \o str(N)

Form_MinusN(N) == <<"-">> \o str(N)

Form_NCheung(N) == str(N) \o <<"cheung">>

Form_N(N) == str(N)

Form_NF(N) == str(N) \o <<"F">>

\* the label forms of every floor number 1..MaxFloorNum, built once
FormsOf == [N \in 1..MaxFloorNum |-> [jiha |-> Form_JihaNCheung(N), ji |-> Form_JiNCheung(N), B |-> Form_BN(N), b |-> Form_bN(N), minus |-> Form_MinusN(N), cheung |-> Form_NCheung(N), bare |-> Form_N(N), F |-> Form_NF(N)]]

Level1Lookalikes == {Form_NCheung(11), Form_NCheung(21), Form_NCheung(31), Form_NCheung(101), <<"ji", "sang">> \o str(11), str(11)}

\* C2 as stated: match_floor(1, label) is false for every label whose floor number is not 1
\* but contains the digit 1: "11층", "21층", "31층", "101층", "지상11", "11".
C2_NoPrefixMatch ==
    (floor_pc = "matched" /\ search_floor = 1 /\ floor_str \in Level1Lookalikes) => is_match = Some(FALSE)

\* C3 as stated: for every non-zero level n and every label L, match_floor(n, L) is true
\* exactly when parse_floor_string(L) = n.
C3_MatchIffParse ==
    (floor_pc = "matched" /\ search_floor # 0) => ((is_match = Some(TRUE)) <=> (floor_num = Some(search_floor)))

\* C4 as stated: parse_floor_string never yields level 0 (the result is a non-zero integer
\* or None), and a label with no digits yields None.
C4_NeverZero ==
    floor_pc = "parsed" => (floor_num # Some(0) /\ (DigitsOnly(floor_str) = << >> => floor_num = None))

(***************************************************************************)
(* Claims about _classify_usage_master.                                    *)
(***************************************************************************)
\* the fields of the result of the finished call
FinalUsage == usage_result[1].final_usage

ShowWarning == usage_result[1].show_usage_warning

\* '소매점', '일반음식점'
KwRetail == <<"so", "mae", "jeom">>

KwRestaurant == <<"il", "ban", "eum", "sig", "jeom">>

\* the keywords of the rules that precede 일반음식점 in the first table
\* ('소매점', '휴게음식점', '커피숍', '제과점', '카페')
BeforeRestaurant == <<<<"so", "mae", "jeom">>, <<"hyu", "ge", "eum", "sig", "jeom">>, <<"keo", "pi", "syob">>, <<"je", "gwa", "jeom">>, <<"ka", "pe">>>>

\* the label is claimed by a rule that runs before the tables: the 점포/주택/및 compound
\* or a legal name ('제1종근린생활시설', '제1종 근린생활시설', '제2종근린생활시설', '제2종 근린생활시설')
ClaimedEarlier(l) ==
    \/ (Contains(l, <<"jeom", "po">>) /\ Contains(l, <<"ju", "taeg">>) /\ Contains(l, <<"mich">>))
    \/ AnyIn(l, <<<<"je", "1", "jong", "geun", "rin", "saeng", "hwal", "si", "seol">>, <<"je", "1", "jong", " ", "geun", "rin", "saeng", "hwal", "si", "seol">>, <<"je", "2", "jong", "geun", "rin", "saeng", "hwal", "si", "seol">>, <<"je", "2", "jong", " ", "geun", "rin", "saeng", "hwal", "si", "seol">>>>)

\* the area is present and not zero
AreaGiven == area_m2 # None /\ area_m2[1] # 0

\* C5 as stated: a label containing "소매점" is 제1종 근린생활시설 below 1000 m2 and 판매시설
\* from 1000 m2 on; a label containing "일반음식점" is 제2종 근린생활시설 whatever the area
\* argument.
C5_Original ==
    usage_pc = "done" =>
        /\ (Contains(api_usage_str, KwRetail) /\ area_m2 # None /\ area_m2[1] < 1000) => FinalUsage = Category("Type1")
        /\ (Contains(api_usage_str, KwRetail) /\ area_m2 # None /\ area_m2[1] >= 1000) => FinalUsage = Category("Sales")
        /\ Contains(api_usage_str, KwRestaurant) => FinalUsage = Category("Type2")

\* C5 amended: with an area that is present and not zero, and a label no earlier rule
\* claims (no 점포/주택/및 compound, no legal name), a label containing "소매점" is
\* 제1종 근린생활시설 below 1000 m2 and 판매시설 from 1000 m2 on, and a label containing
\* "일반음식점" and none of 소매점, 휴게음식점, 커피숍, 제과점, 카페 is 제2종 근린생활시설
\* for every such area; with the area missing or zero such a label gives "확인요망".
C5_RetailAndRestaurant ==
    (usage_pc = "done" /\ ~ClaimedEarlier(api_usage_str)) =>
        /\ (Contains(api_usage_str, KwRetail) /\ AreaGiven /\ area_m2[1] < 1000) => (FinalUsage = Category("Type1") /\ ~ShowWarning)
        /\ (Contains(api_usage_str, KwRetail) /\ AreaGiven /\ area_m2[1] >= 1000) => (FinalUsage = Category("Sales") /\ ~ShowWarning)
        /\ (Contains(api_usage_str, KwRestaurant) /\ ~AnyIn(api_usage_str, BeforeRestaurant) /\ AreaGiven) => (FinalUsage = Category("Type2") /\ ~ShowWarning)
        /\ ((Contains(api_usage_str, KwRetail) \/ Contains(api_usage_str, KwRestaurant)) /\ ~AreaGiven) => (FinalUsage = CheckNeeded /\ ~ShowWarning)

\* C5 witness: "소매점" with 1000 m2 has been classified 판매시설.
C5_Witness == usage_pc = "done" /\ api_usage_str = KwRetail /\ area_m2 = Some(1000) /\ FinalUsage = Category("Sales")

OfficeCategory(a) == IF a < 30 THEN Category("Type1") ELSE IF a < 500 THEN Category("Type2") ELSE Category("Business")

\* C7 as stated: for every area a, "사무실" and "사무소" give the same result, which is
\* 제1종 근린생활시설 for a < 30, 제2종 근린생활시설 for 30 <= a < 500 and 업무시설 for a >= 500.
C7_Original ==
    (usage_pc = "done" /\ api_usage_str \in {<<"sa", "mu", "sil">>, <<"sa", "mu", "so">>} /\ area_m2 # None) =>
        FinalUsage = OfficeCategory(area_m2[1])

\* C7 amended: for every area a that is present and not zero, "사무실" and "사무소" give the
\* same result, 제1종 근린생활시설 for a < 30, 제2종 근린생활시설 for 30 <= a < 500 and
\* 업무시설 for a >= 500; with the area missing or zero both give "확인요망".
C7_Office ==
    (usage_pc = "done" /\ api_usage_str \in {<<"sa", "mu", "sil">>, <<"sa", "mu", "so">>}) =>
        /\ ~ShowWarning
        /\ FinalUsage = IF AreaGiven THEN OfficeCategory(area_m2[1]) ELSE CheckNeeded

\* C7 witness: "사무실" with 500 m2 has been classified 업무시설.
C7_Witness == usage_pc = "done" /\ api_usage_str = <<"sa", "mu", "sil">> /\ area_m2 = Some(500) /\ FinalUsage = Category("Business")

\* C8 as stated: a label containing 판매시설, 대규모점포 or 농수산물도매시장 is classified
\* 판매시설 for every area, also when it contains a retail keyword and the area is below 1000.
C8_SalesWins ==
    (usage_pc = "done" /\ AreaGiven /\ AnyIn(api_usage_str, <<<<"pan", "mae", "si", "seol">>, <<"dae", "gyu", "mo", "jeom", "po">>, <<"nong", "su", "san", "mul", "do", "mae", "si", "jang">>>>)) => FinalUsage = Category("Sales")

\* C9 as stated: a label with a keyword of a commercial rule (서점, 사진관, 고시원, 학원, 소매점)
\* and a residential keyword (단독, 다가구, 아파트, 다세대) is never 단독주택 or 공동주택.
C9_NoResidentialWithCommercial ==
    (usage_pc = "done" /\ AnyIn(api_usage_str, <<<<"seo", "jeom">>, <<"sa", "jin", "gwan">>, <<"go", "si", "won">>, <<"hag", "won">>, <<"so", "mae", "jeom">>>>) /\ AnyIn(api_usage_str, <<<<"dan", "dog">>, <<"da", "ga", "gu">>, <<"a", "pa", "teu">>, <<"da", "se", "dae">>>>)) =>
        FinalUsage \notin {Category("Detached"), Category("MultiUnit")}

SearchFloorOf(f) == IF f = None \/ f[1] = 0 THEN 1 ELSE f[1]

\* the floor label of a row: flrNoNm, and the number flrNo when flrNoNm is missing
\* (area_info.get('flrNoNm', '') or area_info.get('flrNo', '')), as str() prints it
FloorLabel(row) ==
    IF row.flrNoNm # << >> THEN row.flrNoNm
    ELSE IF row.flrNo = None THEN << >> ELSE str(row.flrNo[1])

\* the floor label of a row is given: a label, or a number other than 0
HasFloorLabel(row) == row.flrNoNm # << >> \/ (row.flrNo # None /\ row.flrNo[1] # 0)

\* str(x).replace('호', '').strip()
NormalizeHo(h) == strip(replace(h, <<"ho">>, << >>))

\* the value of an area field when it is usable: present, numeric and above zero
\* (if exclusive_area: area_val = float(...); if area_val > 0)
PositiveArea(a) == IF a # None /\ a[1] > 0 THEN a ELSE None

\* '계단실' in etcPurps or mainPurpsCdNm, or either equal to '계단'
IsStaircase(row) ==
    \/ Contains(strip(row.etcPurps), <<"gye", "dan", "sil">>) \/ Contains(strip(row.mainPurpsCdNm), <<"gye", "dan", "sil">>)
    \/ strip(row.etcPurps) = <<"gye", "dan">> \/ strip(row.mainPurpsCdNm) = <<"gye", "dan">>

\* is_exclusive: '전유' or 'exclusive' in the name of the exclusive/shared flag,
\* and the code '1' when the row has no name
IsExclusive(row) ==
    IF row.exposPubuseGbCdNm # << >>
    THEN \/ Contains(strip(row.exposPubuseGbCdNm), <<"jeon", "yu">>)
         \/ Contains(lower(strip(row.exposPubuseGbCdNm)), <<"e", "x", "c", "l", "u", "s", "i", "v", "e">>)
    ELSE row.exposPubuseGbCd = <<"1">>

\* floor_num_str.startswith(f"{search_floor_str}층") and the test of the character at
\* index len(f"{search_floor_str}층") - 1 that follows it
StartsWithFloor(s, ss) ==
    /\ startswith(s, ss \o <<"cheung">>)
    /\ \/ Len(s) = Len(ss \o <<"cheung">>)
       \/ Len(s) > Len(ss \o <<"cheung">>) /\ ~IsDigit(s[Len(ss \o <<"cheung">>)])

\* the floor test of _get_floor_area_from_api on the stripped label s
ApiFloorMatch(sf, s) ==
    IF sf < 0
    THEN LET n == str(abs(sf)) IN
         \/ s = <<"ji", "ha">> \o n \o <<"cheung">> \/ s = <<"ji", "ha">> \o n
         \/ s = <<"ji">> \o n \o <<"cheung">> \/ s = <<"ji">> \o n
         \/ lower(s) = <<"b">> \o n \/ lower(s) = <<"b">> \o n \o <<"f">>
         \/ s = <<"ji", "ha">> \o n \o <<"F">>
         \/ s = <<"-">> \o n \/ s = <<"-">> \o n \o <<"cheung">> \/ s = <<"-">> \o n \o <<"F">>
    ELSE IF s = str(sf) THEN TRUE
    ELSE IF s = str(sf) \o <<"cheung">> THEN TRUE
    ELSE IF s = str(sf) \o <<"F">> THEN TRUE
    ELSE IF startswith(s, str(sf) \o <<"cheung">>) THEN StartsWithFloor(s, str(sf))
    ELSE IF sf = 1
         THEN \/ Contains(s, <<"1">> \o <<"cheung">>) /\ ~Contains(s, <<"1", "1">> \o <<"cheung">>) /\ ~Contains(s, <<"2", "1">> \o <<"cheung">>)
              \/ s = <<"1">>
              \/ startswith(s, <<"1">> \o <<"cheung">>)
    ELSE FALSE

\* the floor test of the retry path of _compare_areas on the stripped label s
RetryFloorMatch(sf, s) ==
    LET ss == str(sf) IN
    IF s = ss THEN TRUE
    ELSE IF DigitsOnly(s) = ss
         THEN IF sf = 1
              THEN IF Contains(s, <<"ji", "sang">>) /\ ~Contains(s, <<"ji", "ha">>) THEN TRUE
                   ELSE ~Contains(s, <<"ji", "ha">>) /\ s = <<"1">>
              ELSE Contains(s, <<"ji", "sang">>) /\ ~Contains(s, <<"ji", "ha">>)
    ELSE IF s = ss \o <<"cheung">> THEN TRUE
    ELSE IF s = <<"ji", "sang">> \o ss \/ s = <<"ji", "sang">> \o ss \o <<"cheung">> THEN TRUE
    ELSE IF s = ss \o <<"F">> THEN TRUE
    ELSE IF startswith(s, ss \o <<"cheung">>) THEN StartsWithFloor(s, ss)
    ELSE IF sf = 1
         THEN IF (Contains(s, <<"ji", "sang">> \o <<"1">>) \/ Contains(s, <<"1">> \o <<"cheung">>)) /\ ~Contains(s, <<"ji", "ha">>)
              THEN ~Contains(s, <<"1", "1">> \o <<"cheung">>) /\ ~Contains(s, <<"2", "1">> \o <<"cheung">>)
              ELSE s = <<"1">> /\ ~Contains(s, <<"ji", "ha">>)
    ELSE FALSE

\* the unit test of the unit-table lookup: equal, equal once normalized, or one
\* normalized label a prefix of the other
UnitHoMatch(h, v) ==
    /\ v # << >>
    /\ \/ h = strip(v)
       \/ NormalizeHo(h) = NormalizeHo(strip(v))
       \/ startswith(NormalizeHo(strip(v)), NormalizeHo(h))
       \/ startswith(NormalizeHo(h), NormalizeHo(strip(v)))

\* lookup 1: the area of the first row of the unit table whose unit label matches
\* ho and whose area is usable
RECURSIVE UnitLookup(_, _)
UnitLookup(h, rows) ==
    IF h = << >> \/ rows = << >> THEN None
    ELSE IF UnitHoMatch(h, rows[1].hoNm) /\ PositiveArea(rows[1].area) # None
         THEN PositiveArea(rows[1].area)
         ELSE UnitLookup(h, Tail(rows))

\* the unit test of the area-table lookup: the normalized labels are equal
AreaHoMatch(h, row) == row.hoNm # << >> /\ NormalizeHo(h) = NormalizeHo(strip(row.hoNm))

\* what one row of the area table gives lookup 2: nothing when it is a staircase,
\* on another floor or shared; else its area when its unit label matches ho, and
\* its area as the area of the floor when ho is missing or does not match
ApiRowArea(sf, h, row) ==
    IF IsStaircase(row) THEN None
    ELSE IF ~ApiFloorMatch(sf, strip(FloorLabel(row))) THEN None
    ELSE IF ~IsExclusive(row) THEN None
    ELSE IF h # << >> /\ AreaHoMatch(h, row) /\ PositiveArea(row.area) # None
         THEN PositiveArea(row.area)
         ELSE PositiveArea(row.area)

\* the index of the row at which lookup 2 stops (break), 0 when it reads every row
ApiStop(sf, h, rows) ==
    IF \E i \in 1..Len(rows) : ApiRowArea(sf, h, rows[i]) # None
    THEN Min({i \in 1..Len(rows) : ApiRowArea(sf, h, rows[i]) # None})
    ELSE 0

\* lookup 2: the area of the first row of the area table that gives one
ApiAreaLookup(sf, h, rows) == IF ApiStop(sf, h, rows) = 0 THEN None ELSE ApiRowArea(sf, h, rows[ApiStop(sf, h, rows)])

\* lookup 3: the area of the first row of the floor summary on the floor that is
\* not a staircase and has a usable area
RECURSIVE FloorSummaryLookup(_, _)
FloorSummaryLookup(sf, rows) ==
    IF rows = << >> THEN None
    ELSE IF ApiFloorMatch(sf, strip(FloorLabel(rows[1]))) /\ ~IsStaircase(rows[1]) /\ PositiveArea(rows[1].area) # None
         THEN PositiveArea(rows[1].area)
         ELSE FloorSummaryLookup(sf, Tail(rows))

\* the rows lookup 2 reads: none when lookup 1 found the area or the table is
\* empty, the rows up to the one it stops at, every row when it finds nothing
RowsRead(sf, h, ur, ar) ==
    IF UnitLookup(h, ur) # None THEN << >>
    ELSE IF ApiStop(sf, h, ar) = 0 THEN ar
    ELSE SubSeq(ar, 1, ApiStop(sf, h, ar))

\* the rows whose floor and unit the hints collect: not a staircase, exclusive by
\* the code '1', with a floor label
IsCollected(row) == ~IsStaircase(row) /\ row.exposPubuseGbCd = <<"1">> /\ HasFloorLabel(row)

\* available_floors: the stripped floor labels of the collected rows
AvailableFloors(rows) == {strip(FloorLabel(rows[i])) : i \in {j \in 1..Len(rows) : IsCollected(rows[j])}}

\* available_hos_by_floor, as the (floor, unit) pairs of the collected rows that have
\* a unit label, in the order read (the dict groups them by floor and sorts each group)
RECURSIVE AvailableHos(_)
AvailableHos(rows) ==
    IF rows = << >> THEN << >>
    ELSE (IF IsCollected(rows[1]) /\ rows[1].hoNm # << >>
          THEN <<<<strip(FloorLabel(rows[1])), strip(rows[1].hoNm)>>>>
          ELSE << >>) \o AvailableHos(Tail(rows))

\* same_ho_other_floors: f"{floor_str} {ho_str}" of the collected rows whose
\* normalized unit label equals that of ho and whose floor label is not str(search_floor)
RECURSIVE SameHoOtherFloors(_, _, _)
SameHoOtherFloors(sf, h, rows) ==
    IF rows = << >> THEN << >>
    ELSE (IF /\ IsCollected(rows[1]) /\ rows[1].hoNm # << >> /\ h # << >>
             /\ NormalizeHo(h) = NormalizeHo(strip(rows[1].hoNm))
             /\ strip(FloorLabel(rows[1])) # str(sf)
          THEN <<strip(FloorLabel(rows[1])) \o <<" ">> \o strip(rows[1].hoNm)>>
          ELSE << >>) \o SameHoOtherFloors(sf, h, Tail(rows))

\* the area _get_floor_area_from_api returns: lookup 1, else lookup 2, else lookup 3
FloorAreaFound(fr, f, ar, h, ur) ==
    FirstSome(<<UnitLookup(h, ur), ApiAreaLookup(SearchFloorOf(f), h, ar), FloorSummaryLookup(SearchFloorOf(f), fr)>>)

\* the dict _get_floor_area_from_api stores in self._floor_search_info
FloorSearchInfo(fr, f, ar, h, ur) ==
    [found |-> FloorAreaFound(fr, f, ar, h, ur) # None,
     searched_floor |-> SearchFloorOf(f),
     searched_ho |-> h,
     available_floors |-> AvailableFloors(RowsRead(SearchFloorOf(f), h, ur, ar)),
     available_hos_by_floor |-> AvailableHos(RowsRead(SearchFloorOf(f), h, ur, ar)),
     same_ho_other_floors |-> SameHoOtherFloors(SearchFloorOf(f), h, RowsRead(SearchFloorOf(f), h, ur, ar))]

\* what one row of the area table gives the retry lookup of _compare_areas: nothing
\* when it is shared, on another floor, or (ho given) has another unit label or none
RetryRowArea(sf, h, row) ==
    IF ~IsExclusive(row) THEN None
    ELSE IF ~RetryFloorMatch(sf, strip(FloorLabel(row))) THEN None
    ELSE IF h # << >> /\ (row.hoNm = << >> \/ NormalizeHo(strip(row.hoNm)) # NormalizeHo(h)) THEN None
    ELSE PositiveArea(row.area)

\* the retry lookup: the area of the first row of the area table that gives one
RECURSIVE RetryAreaLookup(_, _, _)
RetryAreaLookup(sf, h, rows) ==
    IF rows = << >> THEN None
    ELSE IF RetryRowArea(sf, h, rows[1]) # None THEN RetryRowArea(sf, h, rows[1])
    ELSE RetryAreaLookup(sf, h, Tail(rows))

\* registry_area of _compare_areas: the area _get_floor_area_from_api returns, else
\* the retry over the unit table and the area table (the retry over the floor
\* summary reads only keys naming 'excl', 'tot' or '전용', which its rows lack)
RegistryAreaOf(fr, f, ar, h, ur) ==
    FirstSome(<<FloorAreaFound(fr, f, ar, h, ur), UnitLookup(h, ur), RetryAreaLookup(SearchFloorOf(f), h, ar)>>)

\* rental_type values '통임대' (whole unit) and '분할임대' (split unit)
TongImDae == <<"tong", "im", "dae">>

BunHalImDae == <<"bun", "hal", "im", "dae">>

\* mismatch: diff > 0.1 (m2)
Mismatch(kakao, reg) == abs(kakao - reg) > 10

\* IsCaseB with the 10% threshold of line 2328 left out
IsCaseB_AnyShortfall(kakao, reg) == kakao < reg

\* case B: kakao_area < registry_area and (registry_area - kakao_area) / registry_area >= 0.1
IsCaseB(kakao, reg) == kakao < reg /\ (reg - kakao) * 10 >= reg

\* rental_type of a comparison
RentalType(kakao, reg) == IF Mismatch(kakao, reg) /\ IsCaseB(kakao, reg) THEN BunHalImDae ELSE TongImDae

\* InputError with >= in place of the > of line 2276
InputError_AtOnePercent(actual, reg) == actual # None /\ actual[1] # 0 /\ reg # None /\ actual[1] * 100 >= reg[1] * 101

\* input_error_detected: actual_area_m2 and registry_area and actual_area_m2 > registry_area * 1.01
InputError(actual, reg) == actual # None /\ actual[1] # 0 /\ reg # None /\ actual[1] * 100 > reg[1] * 101

\* the dict _compare_areas returns once kakao_area is given; a key the dict lacks
\* ('not_found' when the area is found; 'diff', 'diff_percent', 'case' when it is
\* not) reads None or FALSE; diff_percent is the ratio <<diff * 100, registry_area>>
Comparison(p, fr, f, ar, ur) ==
    LET kakao == p.area_m2[1]
        reg == RegistryAreaOf(fr, f, ar, p.ho, ur)
        info == FloorSearchInfo(fr, f, ar, p.ho, ur)
    IN  IF reg = None
        THEN [kakao_area |-> kakao, registry_area |-> None, not_found |-> TRUE,
              diff |-> None, diff_percent |-> None, mismatch |-> FALSE,
              case |-> None, case_a |-> FALSE, case_b |-> FALSE, rental_type |-> None,
              actual_area_m2 |-> p.actual_area_m2, input_error_detected |-> FALSE,
              suggested_area |-> None, floor_search_info |-> info]
        ELSE [kakao_area |-> kakao, registry_area |-> reg, not_found |-> FALSE,
              diff |-> Some(abs(kakao - reg[1])),
              diff_percent |-> Some(<<abs(kakao - reg[1]) * 100, reg[1]>>),
              mismatch |-> Mismatch(kakao, reg[1]),
              case |-> IF ~Mismatch(kakao, reg[1]) THEN None
                       ELSE IF IsCaseB(kakao, reg[1]) THEN Some("B") ELSE Some("A"),
              case_a |-> Mismatch(kakao, reg[1]) /\ ~IsCaseB(kakao, reg[1]),
              case_b |-> Mismatch(kakao, reg[1]) /\ IsCaseB(kakao, reg[1]),
              rental_type |-> Some(RentalType(kakao, reg[1])),
              actual_area_m2 |-> p.actual_area_m2,
              input_error_detected |-> InputError(p.actual_area_m2, reg),
              suggested_area |-> IF InputError(p.actual_area_m2, reg) THEN Some(kakao) ELSE None,
              floor_search_info |-> info]

(***************************************************************************)
(* The area specification: one call of _get_floor_area_from_api or of      *)
(* _compare_areas on registry tables and a message drawn as inputs.        *)
(***************************************************************************)
\* most rows of an area table drawn as an input
MaxRows == 2

\* a row of the area table
AreaRow(flr, no, h, cd, nm, etc, a) ==
    [flrNoNm |-> flr, flrNo |-> Some(no), hoNm |-> h, exposPubuseGbCd |-> cd, exposPubuseGbCdNm |-> nm,
     etcPurps |-> etc, mainPurpsCdNm |-> << >>, area |-> a]

\* the rows area tables are made of: exclusive units 201호 and 202호 on 2층, a shared
\* row on 2층, an exclusive row on 1층, on 지하1층 and on 3층 without an area, and
\* an exclusive staircase ('계단실') on 지상2층
AreaRowChoices ==
    {AreaRow(<<"2", "cheung">>, 2, <<"2", "0", "1", "ho">>, <<"1">>, <<"jeon", "yu">>, <<"sa", "mu", "so">>, Some(3000)),
     AreaRow(<<"2", "cheung">>, 2, <<"2", "0", "2", "ho">>, <<"1">>, <<"jeon", "yu">>, <<"sa", "mu", "so">>, Some(5000)),
     AreaRow(<<"2", "cheung">>, 2, << >>, <<"2">>, <<"gong", "yong">>, <<"bog", "do">>, Some(1200)),
     AreaRow(<<"1", "cheung">>, 1, << >>, <<"1">>, <<"jeon", "yu">>, <<"so", "mae", "jeom">>, Some(8000)),
     AreaRow(<<"ji", "ha", "1", "cheung">>, 1, << >>, <<"1">>, <<"jeon", "yu">>, <<"chang", "go">>, Some(4000)),
     AreaRow(<<"3", "cheung">>, 3, <<"2", "0", "2", "ho">>, <<"1">>, << >>, <<"sa", "mu", "so">>, Some(0)),
     AreaRow(<<"ji", "sang", "2", "cheung">>, 2, << >>, <<"1">>, <<"jeon", "yu">>, <<"gye", "dan", "sil">>, Some(1250))}

\* every area table of at most MaxRows rows, in every order
AreaTables == UNION {[1..k -> AreaRowChoices] : k \in 0..MaxRows}

\* reported areas about a registry area r: equal, one hundredth and 0.1 m2 and a
\* little more off, just inside and at 0.1%, about 10% and 30% smaller, larger
NearbyAreas(r) ==
    {a \in {r, r - 1, r + 1, r - 10, r + 10, r - 11, r + 11, r - 15, r + 15,
            r - (r \div 1000), r - (r \div 1000) + 1, r + (r \div 1000),
            (r * 9) \div 10, (r * 9) \div 10 + 1, (r * 9) \div 10 - 1,
            (r * 86) \div 100, (r * 7) \div 10, (r * 12) \div 10} : a > 0}

\* inputs that exercise the lookups: the floors asked for are none, 1, 2, 3 and
\* basement 1, the unit none, '202' and '202호'; the unit table is missing or has
\* one row for 202호, the floor summary is missing or has one row for 1층
InitLookup ==
    /\ \E k \in {None, Some(3000)}, h \in {<< >>, <<"2", "0", "2">>, <<"2", "0", "2", "ho">>} :
        parsed = [area_m2 |-> k, actual_area_m2 |-> None, ho |-> h]
    /\ floor \in {None, Some(1), Some(2), Some(3), Some(-1)}
    /\ area_result \in AreaTables
    /\ unit_result \in {<< >>, <<[hoNm |-> <<"2", "0", "2", "ho">>, area |-> Some(5000)]>>}
    /\ floor_result \in {<< >>, <<[flrNoNm |-> <<"1", "cheung">>, flrNo |-> Some(1), etcPurps |-> <<"so", "mae", "jeom">>,
                          mainPurpsCdNm |-> << >>, area |-> Some(9000)]>>}

\* inputs that exercise the comparison: one exclusive row on 1층 with area r of
\* 0.5, 1, 11, 50, 209 or 1000 m2, a reported area about r and a contract area
\* that is missing, zero, equal, at or just above 1.01 r or double
InitCompare ==
    /\ \E r \in {50, 100, 1100, 5000, 20900, 100000} :
        /\ area_result = <<AreaRow(<<"1", "cheung">>, 1, << >>, <<"1">>, <<"jeon", "yu">>, << >>, Some(r))>>
        /\ \E k \in NearbyAreas(r) \cup {0}, c \in {None, Some(0), Some(r), Some((r * 101) \div 100), Some((r * 101) \div 100 + 1), Some(2 * r)} :
            parsed = [area_m2 |-> Some(k), actual_area_m2 |-> c, ho |-> << >>]
    /\ floor = Some(1)
    /\ unit_result = << >>
    /\ floor_result = << >>

InitArea ==
    /\ InitLookup \/ InitCompare
    /\ _floor_search_info = None
    /\ registry_area = None
    /\ area_comparison = None
    /\ area_pc = "ready"
    /\ runs = << >>
    /\ FloorIdle /\ UsageIdle
    /\ BankIdle
    /\ AppIdle

\* a call of _get_floor_area_from_api(floor_result, floor, area_result, ho, unit_result)
GetFloorAreaFromApi ==
    /\ area_pc = "ready"
    /\ registry_area' = FloorAreaFound(floor_result, floor, area_result, parsed.ho, unit_result)
    /\ _floor_search_info' = Some(FloorSearchInfo(floor_result, floor, area_result, parsed.ho, unit_result))
    /\ area_pc' = "looked_up"
    /\ UNCHANGED <<parsed, floor, floor_result, area_result, unit_result, area_comparison, runs>>
    /\ UNCHANGED floor_vars
    /\ UNCHANGED usage_vars
    /\ UNCHANGED bank_vars
    /\ UNCHANGED app_vars

\* a call of _compare_areas(parsed, building, floor_result, area_result, floor, unit_result):
\* None, before any lookup, when the message has no area
CompareAreas ==
    /\ area_pc = "ready"
    /\ IF parsed.area_m2 = None \/ parsed.area_m2 = Some(0)
       THEN /\ area_comparison' = None
            /\ UNCHANGED _floor_search_info
       ELSE /\ area_comparison' = Some(Comparison(parsed, floor_result, floor, area_result, unit_result))
            /\ _floor_search_info' = Some(FloorSearchInfo(floor_result, floor, area_result, parsed.ho, unit_result))
    /\ area_pc' = "compared"
    /\ UNCHANGED <<parsed, floor, floor_result, area_result, unit_result, registry_area, runs>>
    /\ UNCHANGED floor_vars
    /\ UNCHANGED usage_vars
    /\ UNCHANGED bank_vars
    /\ UNCHANGED app_vars

NextArea == GetFloorAreaFromApi \/ CompareAreas

SpecArea == InitArea /\ [][NextArea]_vars

(***************************************************************************)
(* Claims about _compare_areas and _get_floor_area_from_api.               *)
(***************************************************************************)
\* _compare_areas has returned a dict
Compared == area_pc = "compared" /\ area_comparison # None

\* the dict _compare_areas returned
Cmp == area_comparison[1]

\* _compare_areas has returned a dict with a registry area
Found == Compared /\ Cmp.registry_area # None

\* the registry area and the reported area of the dict
Reg == Cmp.registry_area[1]

Kakao == Cmp.kakao_area

\* C12: whenever _compare_areas finds a registry area and the reported area is
\* within 0.1% of it, rental_type is '통임대' (whole unit) and diff_percent < 0.1.
C12_WholeUnitWithinTolerance ==
    (Found /\ abs(Kakao - Reg) * 1000 < Reg) =>
        /\ Cmp.rental_type = Some(TongImDae)
        /\ Cmp.diff_percent[1][1] * 10 < Cmp.diff_percent[1][2]

\* C12 witness: a reported area short of the registry area by more than 0.1 m2 and
\* less than 0.1% has come back as a whole-unit lease.
C12_Witness ==
    /\ Found /\ Kakao < Reg /\ Cmp.mismatch /\ abs(Kakao - Reg) * 1000 < Reg
    /\ Cmp.rental_type = Some(TongImDae)

\* C13: whenever the reported area is smaller than the registry area by 10% or more
\* of the registry area, rental_type is '분할임대' (split unit), for every positive
\* registry area.
C13_SplitWhenTenPercentSmaller ==
    (Found /\ Reg > 0 /\ Kakao < Reg /\ (Reg - Kakao) * 10 >= Reg) => Cmp.rental_type = Some(BunHalImDae)

\* C14: when the reported area differs from the registry area by 0.1% or more and
\* is not smaller by 10% or more, the lease type is left undetermined: rental_type
\* is neither '통임대' nor '분할임대'.
C14_UndeterminedOtherwise ==
    (Found /\ abs(Kakao - Reg) * 1000 >= Reg /\ ~(Kakao < Reg /\ (Reg - Kakao) * 10 >= Reg)) =>
        Cmp.rental_type = None

\* the rows of the area table whose floor label names floor level n
RowsOnFloor(n) == {i \in 1..Len(area_result) : parse_floor_string(strip(FloorLabel(area_result[i]))) = Some(n)}

\* C15: when the area table, the only table given, has rows and none for the
\* requested floor, _compare_areas
\* returns not_found with registry area None, and available_floors is non-empty and
\* is exactly the set of floor labels present in the table.
C15_NotFoundListsFloors ==
    (Compared /\ area_result # << >> /\ floor_result = << >> /\ unit_result = << >> /\ RowsOnFloor(SearchFloorOf(floor)) = {}) =>
        /\ Cmp.not_found /\ Cmp.registry_area = None
        /\ Cmp.floor_search_info.available_floors # {}
        /\ Cmp.floor_search_info.available_floors = {strip(FloorLabel(area_result[i])) : i \in 1..Len(area_result)}

\* the areas of the rows a lookup may take the registry area from: the unit table,
\* the floor summary but for staircases, and the rows of the area table that are
\* exclusive and not staircases
EligibleAreas ==
    {unit_result[i].area : i \in 1..Len(unit_result)}
    \cup {floor_result[i].area : i \in {j \in 1..Len(floor_result) : ~IsStaircase(floor_result[j])}}
    \cup {area_result[i].area : i \in {j \in 1..Len(area_result) : IsExclusive(area_result[j]) /\ ~IsStaircase(area_result[j])}}

\* C16: the registry area the reconciler returns is never taken from a shared row
\* or from a staircase row, on any lookup path and for any row order.
C16_NeverSharedOrStaircase ==
    /\ (area_pc = "looked_up" /\ registry_area # None) => registry_area \in EligibleAreas
    /\ Found => Cmp.registry_area \in EligibleAreas

\* the rows of the requested floor that are exclusive, not staircases, have a usable
\* area and a unit label that normalizes equal to ho
UnitRows ==
    {i \in RowsOnFloor(SearchFloorOf(floor)) :
        /\ IsExclusive(area_result[i]) /\ ~IsStaircase(area_result[i])
        /\ PositiveArea(area_result[i].area) # None
        /\ AreaHoMatch(parsed.ho, area_result[i])}

\* C17: when a unit is asked for and the requested floor has an exclusive row that
\* is not a staircase and carries that unit label, _get_floor_area_from_api returns
\* that row's area whatever the order of the rows.
C17_MatchingUnitWins ==
    (area_pc = "looked_up" /\ parsed.ho # << >> /\ UnitRows # {}) =>
        registry_area \in {area_result[i].area : i \in UnitRows}

Row(n, st, msg) == [name |-> n, status |-> st, message |-> msg]

\* re.findall(r'\d+(?:-\d+)?', s), read from position i on
RECURSIVE FindNumbers(_, _)
FindNumbers(s, i) ==
    IF i > Len(s) THEN << >>
    ELSE IF ~IsDigit(s[i]) THEN FindNumbers(s, i + 1)
    ELSE LET e == DigitRunEnd(s, i)
             e2 == IF e + 2 <= Len(s) /\ s[e + 1] = "-" /\ IsDigit(s[e + 2]) THEN DigitRunEnd(s, e + 2) ELSE e
         IN  <<SubSeq(s, i, e2)>> \o FindNumbers(s, e2 + 1)

\* the lot numbers of an address: '대구광역시 ' and '대구 ' are dropped
\* (addr.replace('대구광역시 ', '').replace('대구 ', '').strip()) and the numbers found
AddressNumbers(addr) ==
    FindNumbers(strip(replace(replace(addr, <<"dae", "gu", "gwang", "yeog", "si", " ">>, << >>), <<"dae", "gu", " ">>, << >>)), 1)

\* parsed_nums and other_nums and parsed_nums[-1] == other_nums[-1]
LastNumberMatch(a, b) == a # << >> /\ b # << >> /\ a[Len(a)] = b[Len(b)]

\* _validate_address(parsed_data, building_data, kakao_data)
_validate_address(p, b, k) ==
    LET parsed_addr == p.address
        registry_addr == IF b.platPlc # << >> THEN b.platPlc ELSE b.newPlatPlc
        kakao_addr == IF k # None THEN k[1].address ELSE << >>
        registry_match == LastNumberMatch(AddressNumbers(parsed_addr), AddressNumbers(registry_addr))
        kakao_match == kakao_addr # << >> /\ LastNumberMatch(AddressNumbers(parsed_addr), AddressNumbers(kakao_addr))
    IN  IF parsed_addr = << >> THEN Some(Row("address", "error", "not parsed"))
        ELSE IF kakao_addr # << >>
             THEN IF registry_match /\ kakao_match THEN Some(Row("address", "correct", "registry and message agree"))
                  ELSE IF registry_match THEN Some(Row("address", "error", "message differs"))
                  ELSE IF kakao_match THEN Some(Row("address", "error", "registry differs"))
                  ELSE Some(Row("address", "error", "all differ"))
             ELSE IF registry_match THEN Some(Row("address", "correct", "registry agrees"))
                  ELSE Some(Row("address", "warning", "check the lot number"))

\* _validate_deposit_rent(parsed_data, kakao_data): int('') raises ValueError when
\* the deposit or the rent of the listing has no digit
_validate_deposit_rent(p, k) ==
    LET amount(v) == IF v # None THEN v[1] ELSE 0
    IN  IF p.deposit = << >> \/ p.rent = << >> THEN Some(Row("deposit_rent", "error", "not parsed"))
        ELSE IF amount(k.deposit) = 0 \/ amount(k.monthly_rent) = 0 THEN Some(Row("deposit_rent", "info", "message needed"))
        ELSE IF DigitsOnly(p.deposit) = << >> \/ DigitsOnly(p.rent) = << >> THEN None
        ELSE IF int(DigitsOnly(p.deposit)) = amount(k.deposit) /\ int(DigitsOnly(p.rent)) = amount(k.monthly_rent)
             THEN Some(Row("deposit_rent", "correct", "message agrees"))
             ELSE Some(Row("deposit_rent", "error", "amounts differ"))

\* re.search(r'(\d+)', s): the first run of digits
SearchNumber(s) ==
    IF DigitsOnly(s) = << >> THEN None
    ELSE LET i == Min({j \in 1..Len(s) : IsDigit(s[j])}) IN Some(SubSeq(s, i, DigitRunEnd(s, i)))

\* get_total_floors(building): grndFlrCnt, or heit when grndFlrCnt is missing or 0,
\* as an int; 0 when there is none or int() fails
get_total_floors(b) ==
    IF b.grndFlrCnt # None /\ b.grndFlrCnt[1] # 0 THEN b.grndFlrCnt[1]
    ELSE IF strip(b.heit) # << >> /\ SearchAllDigits(strip(b.heit)) # None THEN int(strip(b.heit))
    ELSE 0

\* _validate_total_floors(parsed_data, building_data)
_validate_total_floors(p, b) ==
    IF p.total_floors = << >> THEN Some(Row("total_floors", "error", "missing"))
    ELSE IF SearchNumber(p.total_floors) = None THEN Some(Row("total_floors", "error", "format"))
    ELSE IF get_total_floors(b) = 0 THEN Some(Row("total_floors", "warning", "check the registry"))
    ELSE IF int(SearchNumber(p.total_floors)[1]) = get_total_floors(b) THEN Some(Row("total_floors", "correct", "registry agrees"))
    ELSE Some(Row("total_floors", "error", "floors differ"))

\* get_parking_count(building): the sum of the counts above zero of the four
\* parking fields, 0 when there is none
get_parking_count(b) ==
    LET cnt(v) == IF v # None /\ v[1] > 0 THEN v[1] ELSE 0
    IN  cnt(b.indrAutoUtcnt) + cnt(b.oudrAutoUtcnt) + cnt(b.indrMechUtcnt) + cnt(b.oudrMechUtcnt)

\* _validate_parking(parsed_data, building_data)
_validate_parking(p, b) ==
    IF p.parking_count = << >> THEN Some(Row("parking", "info", "missing"))
    ELSE IF SearchNumber(p.parking_count) = None THEN Some(Row("parking", "error", "format"))
    ELSE IF int(SearchNumber(p.parking_count)[1]) = get_parking_count(b) THEN Some(Row("parking", "correct", "registry agrees"))
    ELSE Some(Row("parking", "warning", "counts differ"))

\* re.search(r'([0-9.]+)', s): the first run of digits and points
SearchArea(s) ==
    LET isnum(c) == IsDigit(c) \/ c = "."
        starts == {j \in 1..Len(s) : isnum(s[j])}
    IN  IF starts = {} THEN None
        ELSE LET i == Min(starts)
             IN  Some(SubSeq(s, i, Min({j \in i..Len(s) : j = Len(s) \/ ~isnum(s[j + 1])})))

\* float(run) of a run of digits and points of at most two decimals, in hundredths;
\* None when float() raises ValueError (no digit, or more than one point)
float(run) ==
    LET points == {j \in 1..Len(run) : run[j] = "."}
    IN  IF Cardinality(points) > 1 \/ DigitsOnly(run) = << >> THEN None
        ELSE IF points = {} THEN Some(int(run) * 100)
        ELSE LET pt == Min(points)
                 frac == SubSeq(run, pt + 1, Len(run)) \o <<"0", "0">>
             IN  Some(int(SubSeq(run, 1, pt - 1)) * 100 + int(SubSeq(frac, 1, 2)))

\* the area of the first of the (floor label, area) pairs whose label is given and
\* accepted by match_floor and whose area is given and not 0
RECURSIVE FirstFloorArea(_, _)
FirstFloorArea(n, pairs) ==
    IF pairs = << >> THEN None
    ELSE IF pairs[1][1] # << >> /\ match_floor(n, pairs[1][1]) /\ pairs[1][2] # None /\ pairs[1][2][1] # 0
         THEN pairs[1][2]
         ELSE FirstFloorArea(n, Tail(pairs))

\* the registry area _validate_contract_area compares with: of the area table by
\* str(flrNo), else of the floor summary by flrNoNm
ContractRegistryArea(n, fr, ar) ==
    LET byNo == [i \in 1..Len(ar) |-> <<IF ar[i].flrNo = None THEN << >> ELSE str(ar[i].flrNo[1]), ar[i].area>>]
        byName == [i \in 1..Len(fr) |-> <<fr[i].flrNoNm, fr[i].area>>]
    IN  IF FirstFloorArea(n, byNo) # None THEN FirstFloorArea(n, byNo)
        ELSE FirstFloorArea(n, byName)

\* _validate_contract_area(parsed_data, floor_result, area_result, kakao_data)
_validate_contract_area(p, fr, ar, k) ==
    LET parsed_floor == parse_floor_string(p.floor)
        reg == ContractRegistryArea(parsed_floor[1], fr, ar)
        parsed_area == float(SearchArea(p.contract_area)[1])
        diff == abs(parsed_area[1] - reg[1])
        within_one == reg[1] < 0 \/ diff * 100 < reg[1]
        kakao_floor_mismatch == k # None /\ k[1].floor # None /\ k[1].floor # parsed_floor
        no_kakao_area == k = None \/ k[1].actual_area_m2 = None \/ k[1].actual_area_m2 = Some(0)
    IN  IF p.contract_area = << >> THEN Some(Row("contract_area", "info", "missing"))
        ELSE IF p.floor = << >> THEN Some(Row("contract_area", "warning", "no floor"))
        ELSE IF SearchArea(p.contract_area) = None THEN Some(Row("contract_area", "error", "format"))
        ELSE IF parsed_area = None THEN None
        ELSE IF parsed_floor = None THEN Some(Row("contract_area", "warning", "floor format"))
        ELSE IF reg = None THEN Some(Row("contract_area", "warning", "not in the registry"))
        ELSE IF kakao_floor_mismatch
             THEN IF within_one THEN Some(Row("contract_area", "warning", "floors differ, areas agree"))
                  ELSE Some(Row("contract_area", "error", "floors and areas differ"))
             ELSE IF within_one
                  THEN IF no_kakao_area THEN Some(Row("contract_area", "warning", "registry agrees, no message"))
                       ELSE Some(Row("contract_area", "correct", "registry agrees"))
                  ELSE IF reg[1] < 0 \/ diff * 100 < 5 * reg[1] THEN Some(Row("contract_area", "warning", "small difference"))
                  ELSE Some(Row("contract_area", "error", "large difference"))

\* _validate_exclusive_area(parsed_data, area_result, kakao_data): the listing's
\* exclusive area against area_m2 of the message; None when float() raises
_validate_exclusive_area(p, ar, k) ==
    LET parsed_area == float(SearchArea(p.exclusive_area)[1])
        kakao_area == IF k # None /\ k[1].area_m2 # None /\ k[1].area_m2[1] # 0 THEN k[1].area_m2 ELSE None
        diff == abs(parsed_area[1] - kakao_area[1])
    IN  IF p.exclusive_area = << >> THEN Some(Row("exclusive_area", "info", "missing"))
        ELSE IF SearchArea(p.exclusive_area) = None THEN Some(Row("exclusive_area", "error", "format"))
        ELSE IF parsed_area = None THEN None
        ELSE IF kakao_area = None THEN Some(Row("exclusive_area", "info", "no message"))
        ELSE IF kakao_area[1] <= 0 \/ diff * 100 < kakao_area[1] THEN Some(Row("exclusive_area", "correct", "message agrees"))
        ELSE IF diff * 100 < 5 * kakao_area[1] THEN Some(Row("exclusive_area", "warning", "small difference"))
        ELSE Some(Row("exclusive_area", "error", "large difference"))

\* _validate_floor(parsed_data, floor_result, area_result, kakao_data): the floor
\* is looked for in the area table by str(flrNo), then in the floor summary by
\* flrNoNm, with match_floor
_validate_floor(p, fr, ar, k) ==
    LET parsed_floor == parse_floor_string(p.floor)
        found_floor ==
            \/ \E i \in 1..Len(ar) : ar[i].flrNo # None /\ match_floor(parsed_floor[1], str(ar[i].flrNo[1]))
            \/ \E i \in 1..Len(fr) : fr[i].flrNoNm # << >> /\ match_floor(parsed_floor[1], fr[i].flrNoNm)
    IN  IF p.floor = << >> THEN Some(Row("floor", "error", "missing"))
        ELSE IF parsed_floor = None THEN Some(Row("floor", "error", "format"))
        ELSE IF found_floor
             THEN IF k # None /\ k[1].floor # None /\ k[1].floor # parsed_floor
                  THEN Some(Row("floor", "error", "message differs"))
                  ELSE Some(Row("floor", "correct", "registry agrees"))
             ELSE Some(Row("floor", "warning", "check the registry"))

\* get_approval_date(building): useAprDay, or pmsDay, formatted; '' when blank.
\* _format_date(date_str) (lines 5095-5099): YYYYMMDD becomes YYYY-MM-DD, any
\* other text is kept
get_approval_date(b) ==
    LET use_apr_day == IF b.useAprDay # << >> THEN b.useAprDay ELSE b.pmsDay
        _format_date(date_str) ==
            IF date_str = << >> \/ Len(date_str) # 8 THEN date_str
            ELSE SubSeq(date_str, 1, 4) \o <<"-">> \o SubSeq(date_str, 5, 6) \o <<"-">> \o SubSeq(date_str, 7, 8)
    IN  IF strip(use_apr_day) # << >> THEN _format_date(use_apr_day) ELSE << >>

\* _validate_approval_date(parsed_data, building_data): the years are compared;
\* None when the last return is reached, which reads the undefined name
\* registry_date and raises NameError
_validate_approval_date(p, b) ==
    LET registry_date_formatted == get_approval_date(b)
        parsed_date_nums == SearchNumber(p.approval_date)
        registry_date_nums == SearchNumber(registry_date_formatted)
        registry_year == IF Len(registry_date_nums[1]) >= 4 THEN SubSeq(registry_date_nums[1], 1, 4)
                         ELSE registry_date_nums[1]
    IN  IF p.approval_date = << >> THEN Some(Row("approval_date", "info", "missing"))
        ELSE IF registry_date_formatted = << >> THEN Some(Row("approval_date", "warning", "check the registry"))
        ELSE IF parsed_date_nums # None /\ registry_date_nums # None
             THEN IF parsed_date_nums[1] = registry_year THEN Some(Row("approval_date", "correct", "registry agrees"))
                  ELSE Some(Row("approval_date", "error", "dates differ"))
             ELSE None

\* _validate_bathroom(parsed_data, kakao_data)
_validate_bathroom(p, k) ==
    LET bank_num == IF SearchNumber(p.bathroom_count) # None THEN int(SearchNumber(p.bathroom_count)[1]) ELSE 0
    IN  IF p.bathroom_count = << >> THEN Some(Row("bathroom", "error", "not parsed"))
        ELSE IF k.bathroom_count = None \/ k.bathroom_count = Some(0) THEN Some(Row("bathroom", "info", "no message"))
        ELSE IF bank_num = k.bathroom_count[1] THEN Some(Row("bathroom", "correct", "message agrees"))
        ELSE Some(Row("bathroom", "error", "counts differ"))

\* _validate_direction(parsed_data, kakao_data): compared without '향'
_validate_direction(p, k) ==
    IF p.direction = << >> THEN Some(Row("direction", "error", "not parsed"))
    ELSE IF k.direction = << >> THEN Some(Row("direction", "info", "no message"))
    ELSE IF replace(p.direction, <<"hyang">>, << >>) = replace(k.direction, <<"hyang">>, << >>)
         THEN Some(Row("direction", "correct", "message agrees"))
         ELSE Some(Row("direction", "error", "message differs"))

\* _validate_illegal(kakao_data): illegal is True, False or None
_validate_illegal(k) ==
    IF k.illegal = Some(TRUE) THEN Some(Row("illegal", "warning", "violation"))
    ELSE IF k.illegal = Some(FALSE) THEN Some(Row("illegal", "correct", "no violation"))
    ELSE Some(Row("illegal", "info", "no message"))

\* _validate_property_type(parsed_data, floor_result, area_result, usage_judgment,
\* kakao_data): the uses are compared without the characters outside [\w가-힣]
_validate_property_type(p, fr, ar, uj, k) ==
    LET parsed_type == p.property_type
        kakao_type == IF k = None THEN << >> ELSE IF k[1].usage # << >> THEN k[1].usage ELSE k[1].property_type
        registry_type == IF uj[1].judged_usage = << >> \/ uj[1].judged_usage = <<"hwag", "in", "yo", "mang">>
                         THEN <<"(", "pan", "jeong", " ", "sil", "pae", ")">>
                         ELSE uj[1].judged_usage
        normalized(s) == SelectSeq(s, LAMBDA c : c \notin {" ", "(", ")", ",", ".", "-", "/"})
        has1(s) == Contains(s, <<"je", "1", "jong">>)
        has2(s) == Contains(s, <<"je", "2", "jong">>)
        mismatch(s, t) == (has1(s) /\ has2(t)) \/ (has2(s) /\ has1(t))
        within(s, t) == Contains(normalized(t), normalized(s)) \/ Contains(normalized(s), normalized(t))
    IN  IF parsed_type = << >> THEN Some(Row("property_type", "error", "missing"))
        ELSE IF uj = None THEN Some(Row("property_type", "warning", "not judged"))
        ELSE IF kakao_type # << >>
             THEN IF normalized(parsed_type) = normalized(registry_type) /\ normalized(registry_type) = normalized(kakao_type)
                  THEN Some(Row("property_type", "correct", "all agree"))
                  ELSE IF mismatch(parsed_type, registry_type) \/ mismatch(parsed_type, kakao_type) \/ mismatch(registry_type, kakao_type)
                  THEN Some(Row("property_type", "error", "type 1 against type 2"))
                  ELSE IF within(parsed_type, registry_type) /\ within(parsed_type, kakao_type)
                  THEN Some(Row("property_type", "correct", "registry agrees"))
                  ELSE Some(Row("property_type", "error", "uses differ"))
             ELSE IF normalized(parsed_type) = normalized(registry_type) THEN Some(Row("property_type", "correct", "registry agrees"))
                  ELSE IF mismatch(parsed_type, registry_type) THEN Some(Row("property_type", "error", "type 1 against type 2"))
                  ELSE IF within(parsed_type, registry_type) THEN Some(Row("property_type", "correct", "registry agrees"))
                  ELSE Some(Row("property_type", "error", "uses differ"))

\* validate with the parking row appended a second time in place of the
\* direction row
validate_ParkingForDirection(p, b, fr, ar, k, uj) ==
    LET results == <<_validate_address(p, b, k), _validate_contract_area(p, fr, ar, k), _validate_exclusive_area(p, ar, k)>>
                   \o (IF k # None THEN <<_validate_deposit_rent(p, k[1])>> ELSE << >>)
                   \o <<_validate_property_type(p, fr, ar, uj, k), _validate_total_floors(p, b),
                        _validate_floor(p, fr, ar, k), _validate_approval_date(p, b)>>
                   \o (IF k # None THEN <<_validate_bathroom(p, k[1])>> ELSE << >>)
                   \o <<_validate_parking(p, b)>>
                   \o (IF k # None THEN <<_validate_parking(p, b), _validate_illegal(k[1])>> ELSE << >>)
        summarize(rows) ==
            LET items == [i \in 1..Len(rows) |-> rows[i][1]]
                count(st) == Cardinality({i \in 1..Len(rows) : items[i].status = st})
            IN  IF \E i \in 1..Len(rows) : rows[i] = None THEN None
                ELSE Some([items |-> items,
                           summary |-> [correct |-> count("correct"), warning |-> count("warning"),
                                        error |-> count("error"), info |-> count("info"), total |-> Len(items)]])
    IN  CHOOSE r \in {summarize(rows) : rows \in {results}} : TRUE

\* validate(parsed_data, building_data, floor_result, area_result, kakao_data,
\* usage_judgment): the results of the validators in the order they are appended
\* (each validator is called once, its result kept in rows) and the summary that
\* counts them; None when one of the validators raises
validate(p, b, fr, ar, k, uj) ==
    LET results == <<_validate_address(p, b, k), _validate_contract_area(p, fr, ar, k), _validate_exclusive_area(p, ar, k)>>
                   \o (IF k # None THEN <<_validate_deposit_rent(p, k[1])>> ELSE << >>)
                   \o <<_validate_property_type(p, fr, ar, uj, k), _validate_total_floors(p, b),
                        _validate_floor(p, fr, ar, k), _validate_approval_date(p, b)>>
                   \o (IF k # None THEN <<_validate_bathroom(p, k[1])>> ELSE << >>)
                   \o <<_validate_parking(p, b)>>
                   \o (IF k # None THEN <<_validate_direction(p, k[1]), _validate_illegal(k[1])>> ELSE << >>)
        summarize(rows) ==
            LET items == [i \in 1..Len(rows) |-> rows[i][1]]
                count(st) == Cardinality({i \in 1..Len(rows) : items[i].status = st})
            IN  IF \E i \in 1..Len(rows) : rows[i] = None THEN None
                ELSE Some([items |-> items,
                           summary |-> [correct |-> count("correct"), warning |-> count("warning"),
                                        error |-> count("error"), info |-> count("info"), total |-> Len(items)]])
    IN  CHOOSE r \in {summarize(rows) : rows \in {results}} : TRUE

(***************************************************************************)
(* The validation specification: one call of a validator on a listing      *)
(* export, a registry record and a message drawn as inputs.                *)
(***************************************************************************)
\* a listing export, a title record and a message that agree on every field:
\* '대구 중구 동성로 12-3', 1,000/50, 5 floors, 3 parking places, 50.5 m2 on 2층
BankDefaults ==
    [parsed_data |-> [address |-> <<"dae", "gu", " ", "jung", "gu", " ", "dong", "seong", "ro", " ", "1", "2", "-", "3">>,
                      deposit |-> <<"1", ",", "0", "0", "0">>, rent |-> <<"5", "0">>,
                      total_floors |-> <<"5", "cheung">>, parking_count |-> <<"3", "dae">>,
                      contract_area |-> <<"5", "0", ".", "5", "m2">>, floor |-> <<"2", "cheung">>,
                      exclusive_area |-> <<"3", "3", ".", "0", "m2">>,
                      property_type |-> <<"je", "1", "jong", " ", "geun", "rin", "saeng", "hwal", "si", "seol">>,
                      approval_date |-> <<"2", "0", "2", "2", ".", "0", "4", ".", "1", "5">>,
                      bathroom_count |-> <<"1", "gae">>, direction |-> <<"nam", "hyang">>],
     building_data |-> [platPlc |-> <<"dae", "gu", "gwang", "yeog", "si", " ", "jung", "gu", " ", "dong", "seong", "ro", " ", "1", "2", "-", "3">>,
                        newPlatPlc |-> << >>, grndFlrCnt |-> Some(5), heit |-> <<"1", "8", ".", "5">>,
                        indrAutoUtcnt |-> Some(1), oudrAutoUtcnt |-> Some(2), indrMechUtcnt |-> Some(0), oudrMechUtcnt |-> None,
                        useAprDay |-> <<"2", "0", "2", "2", "0", "4", "1", "5">>, pmsDay |-> << >>],
     kakao_data |-> [address |-> <<"jung", "gu", " ", "dong", "seong", "ro", " ", "1", "2", "-", "3">>,
                     deposit |-> Some(1000), monthly_rent |-> Some(50), actual_area_m2 |-> Some(5050), floor |-> Some(2),
                     area_m2 |-> Some(3300), usage |-> <<"je", "1", "jong", "geun", "rin", "saeng", "hwal", "si", "seol">>,
                     property_type |-> << >>, bathroom_count |-> Some(1), direction |-> <<"nam">>, illegal |-> Some(FALSE)],
     usage_judgment |-> [judged_usage |-> <<"je", "1", "jong", " ", "geun", "rin", "saeng", "hwal", "si", "seol">>]]

\* the inputs: the agreeing records with the fields of one validator varied
InitBank ==
    /\ \/ /\ \E a \in {<< >>, BankDefaults.parsed_data.address, <<"jung", "gu", " ", "dong", "seong", "ro", " ", "1", "5">>,
                       <<"jung", "gu", " ", "dong", "seong", "ro">>} :
                parsed_data = [BankDefaults.parsed_data EXCEPT !.address = a]
          /\ \E a \in {<< >>, BankDefaults.building_data.platPlc, <<"dae", "gu", " ", "jung", "gu", " ", "dong", "seong", "ro", " ", "1", "5">>},
                n \in {<< >>, <<"jung", "gu", " ", "dong", "seong", "ro", "2", "gil", " ", "1", "2", "-", "3">>} :
                building_data = [BankDefaults.building_data EXCEPT !.platPlc = a, !.newPlatPlc = n]
          /\ \/ kakao_data = None
             \/ \E a \in {<< >>, BankDefaults.kakao_data.address, <<"dong", "seong", "ro", " ", "1", "5">>} :
                    kakao_data = Some([BankDefaults.kakao_data EXCEPT !.address = a])
          /\ usage_judgment = Some(BankDefaults.usage_judgment)
          /\ area_result = << >> /\ floor_result = << >>
       \/ /\ \E d \in {<< >>, <<"1", ",", "0", "0", "0">>, <<"hyeob", "ui">>}, r \in {<< >>, <<"5", "0">>, <<"5", "0", "man", "won">>} :
                parsed_data = [BankDefaults.parsed_data EXCEPT !.deposit = d, !.rent = r]
          /\ building_data = BankDefaults.building_data
          /\ \E d \in {None, Some(0), Some(1000), Some(2000)}, r \in {None, Some(50), Some(60)} :
                kakao_data = Some([BankDefaults.kakao_data EXCEPT !.deposit = d, !.monthly_rent = r])
          /\ usage_judgment = Some(BankDefaults.usage_judgment)
          /\ area_result = << >> /\ floor_result = << >>
       \/ /\ \E t \in {<< >>, <<"5", "cheung">>, <<"ji", "sang", " ", "4", "cheung">>, <<"go", "cheung">>},
                c \in {<< >>, <<"3", "dae">>, <<"0", "dae">>, <<"eobs", "eum">>} :
                parsed_data = [BankDefaults.parsed_data EXCEPT !.total_floors = t, !.parking_count = c]
          /\ \E g \in {None, Some(0), Some(5)}, h \in {<< >>, <<"5">>, <<"1", "8", ".", "5">>},
                i \in {None, Some(0), Some(1)}, o \in {None, Some(2)} :
                building_data = [BankDefaults.building_data EXCEPT !.grndFlrCnt = g, !.heit = h,
                                                                     !.indrAutoUtcnt = i, !.oudrAutoUtcnt = o,
                                                                     !.indrMechUtcnt = None]
          /\ kakao_data \in {None, Some(BankDefaults.kakao_data)}
          /\ usage_judgment = Some(BankDefaults.usage_judgment)
          /\ area_result = << >> /\ floor_result = << >>
       \/ /\ \E a \in {<< >>, <<"5", "0", ".", "5", "m2">>, <<"3", "0", "m2">>, <<"5", "2", ".", "0", "6">>, <<"myeon", "jeog">>, <<".">>},
                f \in {<< >>, <<"2", "cheung">>, <<"ji", "ha", "1", "cheung">>, <<"go", "cheung">>} :
                parsed_data = [BankDefaults.parsed_data EXCEPT !.contract_area = a, !.floor = f]
          /\ building_data = BankDefaults.building_data
          /\ \/ kakao_data = None
             \/ \E a \in {None, Some(5050)}, f \in {None, Some(2), Some(3)} :
                    kakao_data = Some([BankDefaults.kakao_data EXCEPT !.actual_area_m2 = a, !.floor = f])
          /\ usage_judgment = Some(BankDefaults.usage_judgment)
          /\ area_result \in {t \in AreaTables : Len(t) <= 1}
          /\ \/ floor_result = << >>
             \/ \E a \in {5000, 5050, -5000} :
                    floor_result = <<[flrNoNm |-> <<"2", "cheung">>, flrNo |-> Some(2), etcPurps |-> <<"sa", "mu", "so">>,
                                      mainPurpsCdNm |-> << >>, area |-> Some(a)]>>
       \/ /\ \E t \in {<< >>, BankDefaults.parsed_data.property_type, <<"je", "2", "jong", "geun", "rin", "saeng", "hwal", "si", "seol">>,
                       <<"sa", "mu", "so">>} :
                parsed_data = [BankDefaults.parsed_data EXCEPT !.property_type = t]
          /\ building_data = BankDefaults.building_data
          /\ \/ kakao_data = None
             \/ \E u \in {<< >>, BankDefaults.kakao_data.usage, <<"je", "2", "jong", " ", "geun", "saeng">>} :
                    kakao_data = Some([BankDefaults.kakao_data EXCEPT !.usage = u])
          /\ \/ usage_judgment = None
             \/ \E j \in {<< >>, BankDefaults.usage_judgment.judged_usage, <<"hwag", "in", "yo", "mang">>,
                            <<"je", "2", "jong", " ", "geun", "rin", "saeng", "hwal", "si", "seol">>} :
                    usage_judgment = Some([judged_usage |-> j])
          /\ area_result = << >> /\ floor_result = << >>
       \/ /\ \E d \in {<< >>, BankDefaults.parsed_data.approval_date, <<"1", "9", "9", "8">>, <<"mi", "sang">>},
                e \in {<< >>, BankDefaults.parsed_data.exclusive_area, <<"3", "4">>, <<".">>} :
                parsed_data = [BankDefaults.parsed_data EXCEPT !.approval_date = d, !.exclusive_area = e]
          /\ \E u \in {<< >>, BankDefaults.building_data.useAprDay}, m \in {<< >>, <<"1", "9", "9", "8", "-", "0", "3">>} :
                building_data = [BankDefaults.building_data EXCEPT !.useAprDay = u, !.pmsDay = m]
          /\ \/ kakao_data = None
             \/ \E a \in {None, Some(3300)} : kakao_data = Some([BankDefaults.kakao_data EXCEPT !.area_m2 = a])
          /\ usage_judgment = Some(BankDefaults.usage_judgment)
          /\ area_result = << >> /\ floor_result = << >>
       \/ /\ \E c \in {<< >>, BankDefaults.parsed_data.bathroom_count, <<"2", "gae">>, <<"eobs", "eum">>},
                d \in {<< >>, BankDefaults.parsed_data.direction, <<"dong", "hyang">>} :
                parsed_data = [BankDefaults.parsed_data EXCEPT !.bathroom_count = c, !.direction = d]
          /\ building_data = BankDefaults.building_data
          /\ \/ kakao_data = None
             \/ \E c \in {None, Some(0), Some(1)}, d \in {<< >>, <<"nam">>, <<"nam", "hyang">>}, i \in {None, Some(TRUE), Some(FALSE)} :
                    kakao_data = Some([BankDefaults.kakao_data EXCEPT !.bathroom_count = c, !.direction = d, !.illegal = i])
          /\ usage_judgment = Some(BankDefaults.usage_judgment)
          /\ area_result = << >> /\ floor_result = << >>
    /\ item = None
    /\ report = None
    /\ bank_pc = "ready"
    /\ parsed = [area_m2 |-> None, actual_area_m2 |-> None, ho |-> << >>]
    /\ floor = None /\ unit_result = << >>
    /\ _floor_search_info = None /\ registry_area = None /\ area_comparison = None
    /\ area_pc = "idle" /\ runs = << >>
    /\ FloorIdle /\ UsageIdle
    /\ AppIdle

\* a call of _validate_address(parsed_data, building_data, kakao_data): the row is
\* returned, or the call raises when there is none
ValidateAddress ==
    /\ bank_pc = "ready"
    /\ item' = _validate_address(parsed_data, building_data, kakao_data)
    /\ bank_pc' = IF item' = None THEN "raised" ELSE "returned"
    /\ UNCHANGED <<parsed_data, building_data, kakao_data, usage_judgment, report>>
    /\ UNCHANGED floor_vars
    /\ UNCHANGED usage_vars
    /\ UNCHANGED area_vars
    /\ UNCHANGED app_vars

\* a call of _validate_deposit_rent(parsed_data, kakao_data), which validate makes
\* when there is a message (if kakao_data)
ValidateDepositRent ==
    /\ bank_pc = "ready"
    /\ kakao_data # None
    /\ item' = _validate_deposit_rent(parsed_data, kakao_data[1])
    /\ bank_pc' = IF item' = None THEN "raised" ELSE "returned"
    /\ UNCHANGED <<parsed_data, building_data, kakao_data, usage_judgment, report>>
    /\ UNCHANGED floor_vars
    /\ UNCHANGED usage_vars
    /\ UNCHANGED area_vars
    /\ UNCHANGED app_vars

\* a call of _validate_total_floors(parsed_data, building_data)
ValidateTotalFloors ==
    /\ bank_pc = "ready"
    /\ item' = _validate_total_floors(parsed_data, building_data)
    /\ bank_pc' = IF item' = None THEN "raised" ELSE "returned"
    /\ UNCHANGED <<parsed_data, building_data, kakao_data, usage_judgment, report>>
    /\ UNCHANGED floor_vars
    /\ UNCHANGED usage_vars
    /\ UNCHANGED area_vars
    /\ UNCHANGED app_vars

\* a call of _validate_parking(parsed_data, building_data)
ValidateParking ==
    /\ bank_pc = "ready"
    /\ item' = _validate_parking(parsed_data, building_data)
    /\ bank_pc' = IF item' = None THEN "raised" ELSE "returned"
    /\ UNCHANGED <<parsed_data, building_data, kakao_data, usage_judgment, report>>
    /\ UNCHANGED floor_vars
    /\ UNCHANGED usage_vars
    /\ UNCHANGED area_vars
    /\ UNCHANGED app_vars

\* a call of _validate_contract_area(parsed_data, floor_result, area_result, kakao_data)
ValidateContractArea ==
    /\ bank_pc = "ready"
    /\ item' = _validate_contract_area(parsed_data, floor_result, area_result, kakao_data)
    /\ bank_pc' = IF item' = None THEN "raised" ELSE "returned"
    /\ UNCHANGED <<parsed_data, building_data, kakao_data, usage_judgment, report>>
    /\ UNCHANGED floor_vars
    /\ UNCHANGED usage_vars
    /\ UNCHANGED area_vars
    /\ UNCHANGED app_vars

\* a call of validate(parsed_data, building_data, floor_result, area_result,
\* kakao_data, usage_judgment): the report is returned, or the call raises when one
\* of the validators does
Validate ==
    /\ bank_pc = "ready"
    /\ report' = validate(parsed_data, building_data, floor_result, area_result, kakao_data, usage_judgment)
    /\ bank_pc' = IF report' = None THEN "validate raised" ELSE "validated"
    /\ UNCHANGED <<parsed_data, building_data, kakao_data, usage_judgment, item>>
    /\ UNCHANGED floor_vars
    /\ UNCHANGED usage_vars
    /\ UNCHANGED area_vars
    /\ UNCHANGED app_vars

NextBank ==
    \/ Validate
    \/ ValidateAddress
    \/ ValidateDepositRent
    \/ ValidateTotalFloors
    \/ ValidateParking
    \/ ValidateContractArea

SpecBank == InitBank /\ [][NextBank]_vars

(***************************************************************************)
(* Claims about the validators.                                            *)
(***************************************************************************)
\* a validator has returned a row
Returned == bank_pc = "returned" /\ item # None

\* the field of the returned row and its status
Field == item[1].name

Status == item[1].status

\* the listing export has a value for the field of the returned row
HasListing ==
    CASE Field = "address" -> parsed_data.address # << >>
      [] Field = "deposit_rent" -> parsed_data.deposit # << >> /\ parsed_data.rent # << >>
      [] Field = "total_floors" -> parsed_data.total_floors # << >>
      [] Field = "parking" -> parsed_data.parking_count # << >>
      [] Field = "contract_area" -> parsed_data.contract_area # << >>

\* the registry has a value for the field of the returned row; for the contract area,
\* a row of the listing's floor with an area
HasRegistry ==
    CASE Field = "address" -> building_data.platPlc # << >> \/ building_data.newPlatPlc # << >>
      [] Field = "deposit_rent" -> FALSE
      [] Field = "total_floors" -> building_data.grndFlrCnt \notin {None, Some(0)} \/ building_data.heit # << >>
      [] Field = "parking" ->
            \E c \in {building_data.indrAutoUtcnt, building_data.oudrAutoUtcnt,
                      building_data.indrMechUtcnt, building_data.oudrMechUtcnt} : c # None
      [] Field = "contract_area" ->
            /\ parse_floor_string(parsed_data.floor) # None
            /\ \/ \E i \in 1..Len(area_result) :
                    /\ parse_floor_string(strip(FloorLabel(area_result[i]))) = parse_floor_string(parsed_data.floor)
                    /\ area_result[i].area \notin {None, Some(0)}
               \/ \E i \in 1..Len(floor_result) :
                    /\ parse_floor_string(strip(FloorLabel(floor_result[i]))) = parse_floor_string(parsed_data.floor)
                    /\ floor_result[i].area \notin {None, Some(0)}

\* the message has a value for the field of the returned row
HasMessage ==
    /\ kakao_data # None
    /\ CASE Field = "address" -> kakao_data[1].address # << >>
         [] Field = "deposit_rent" ->
                kakao_data[1].deposit \notin {None, Some(0)} /\ kakao_data[1].monthly_rent \notin {None, Some(0)}
         [] Field = "total_floors" -> FALSE
         [] Field = "parking" -> FALSE
         [] Field = "contract_area" -> kakao_data[1].actual_area_m2 \notin {None, Some(0)}

\* the number of sources that have a value for the field of the returned row
SourceCount ==
    (IF HasListing THEN 1 ELSE 0) + (IF HasRegistry THEN 1 ELSE 0) + (IF HasMessage THEN 1 ELSE 0)

\* C19: for every field, when fewer than two of the sources (listing export,
\* registry, message) have a value, the status of the row is 'info', never
\* 'correct', 'warning' or 'error'.
C19_InfoBelowTwoSources == (Returned /\ SourceCount < 2) => Status = "info"

\* the values of the two sources that have one are equal under the rule of the field:
\* the last lot numbers of the addresses, the amounts, the numbers of floors or of
\* parking places
TwoSourcesAgree ==
    CASE Field = "address" ->
            LET present == SelectSeq(<<parsed_data.address,
                                       IF building_data.platPlc # << >> THEN building_data.platPlc ELSE building_data.newPlatPlc,
                                       IF kakao_data # None THEN kakao_data[1].address ELSE << >>>>,
                                     LAMBDA a : a # << >>)
            IN  LastNumberMatch(AddressNumbers(present[1]), AddressNumbers(present[2]))
      [] Field = "deposit_rent" ->
            /\ DigitsOnly(parsed_data.deposit) # << >> /\ DigitsOnly(parsed_data.rent) # << >>
            /\ Some(int(DigitsOnly(parsed_data.deposit))) = kakao_data[1].deposit
            /\ Some(int(DigitsOnly(parsed_data.rent))) = kakao_data[1].monthly_rent
      [] Field = "total_floors" ->
            /\ SearchNumber(parsed_data.total_floors) # None
            /\ int(SearchNumber(parsed_data.total_floors)[1]) = get_total_floors(building_data)
      [] Field = "parking" ->
            /\ SearchNumber(parsed_data.parking_count) # None
            /\ int(SearchNumber(parsed_data.parking_count)[1]) = get_parking_count(building_data)

\* C20: for every field, when exactly two sources have a value the status is
\* 'correct' if the two values are equal under the rule of the field and 'error'
\* if they are not; no other status is produced (for the contract area the formula
\* asks only that the status is one of the two).
C20_TwoSourcesMatchOrMismatch ==
    (Returned /\ SourceCount = 2) =>
        /\ Status \in {"correct", "error"}
        /\ Field # "contract_area" => (Status = "correct" <=> TwoSourcesAgree)

(***************************************************************************)
(* The address row with three sources.                                     *)
(***************************************************************************)

\* the address row was returned for a listing, a registry and a message address
ThreeAddresses == Returned /\ Field = "address" /\ SourceCount = 3

\* the address the validator reads from the registry
RegistryAddress ==
    IF building_data.platPlc # << >> THEN building_data.platPlc ELSE building_data.newPlatPlc

\* two addresses are equal under the rule of the field (their last lot numbers)
AddressAgree(a, b) == LastNumberMatch(AddressNumbers(a), AddressNumbers(b))

\* C21: when the listing export, the registry and the message all give an
\* address, the row is 'correct' if all three are equal; if exactly one pair is
\* equal it is 'error' with a message naming the source that disagrees, for each
\* of the three possible dissenters (also when registry and message agree and
\* the listing export differs); if no pair is equal it is 'error' with the
\* message that all three differ.
C21_DissenterNamed ==
    ThreeAddresses =>
        LET lr == AddressAgree(parsed_data.address, RegistryAddress)
            lm == AddressAgree(parsed_data.address, kakao_data[1].address)
            rm == AddressAgree(RegistryAddress, kakao_data[1].address)
        IN  /\ (lr /\ lm /\ rm) => Status = "correct"
            /\ (lr /\ ~lm /\ ~rm) => (Status = "error" /\ item[1].message = "message differs")
            /\ (lm /\ ~lr /\ ~rm) => (Status = "error" /\ item[1].message = "registry differs")
            /\ (rm /\ ~lr /\ ~lm) => (Status = "error" /\ item[1].message = "listing differs")
            /\ (~lr /\ ~lm /\ ~rm) => (Status = "error" /\ item[1].message = "all differ")

(***************************************************************************)
(* Claims about the report of validate.                                    *)
(***************************************************************************)
\* validate has returned a report
Validated == bank_pc = "validated" /\ report # None

Items == report[1].items

Summary == report[1].summary

\* the status of the row of the report with the given field name
RowStatus(n) == Items[CHOOSE i \in DOMAIN Items : Items[i].name = n].status

\* C22: in every report validate returns, the summary counts the rows per status
\* so that correct + warning + error + info = total = number of rows, the status
\* of every row is one of those four values, and no field name appears in more
\* than one row.
C22_SummaryCountsRows ==
    Validated =>
        /\ Summary.correct + Summary.warning + Summary.error + Summary.info = Summary.total
        /\ Summary.total = Len(Items)
        /\ \A i \in DOMAIN Items : Items[i].status \in {"correct", "warning", "error", "info"}
        /\ \A i, j \in DOMAIN Items : Items[i].name = Items[j].name => i = j

\* a report of all twelve rows (there is a message) in which every status occurs
C22_Witness ==
    /\ Validated
    /\ Summary.total = 12
    /\ Summary.correct > 0 /\ Summary.warning > 0 /\ Summary.error > 0 /\ Summary.info > 0

\* the listing export and the message both give a floor, and the floors differ
FloorsDiffer ==
    /\ parse_floor_string(parsed_data.floor) # None
    /\ kakao_data # None /\ kakao_data[1].floor # None
    /\ kakao_data[1].floor # parse_floor_string(parsed_data.floor)

\* C24: whenever the listing export and the message both give a floor and the
\* two floors differ, the floor row and the contract-area row of the report have
\* status 'error', whether or not the registry contains the listing's floor and
\* whether or not the areas agree (the formula asks it when the listing gives a
\* contract area with a number in it).
C24_FloorDisagreementIsError ==
    (Validated /\ FloorsDiffer /\ SearchArea(parsed_data.contract_area) # None) =>
        /\ RowStatus("floor") = "error"
        /\ RowStatus("contract_area") = "error"

\* C25: validate returns a report for every combination of input records; a
\* field without an extractable number or a malformed one (a deposit without
\* digits, a contract area of '.', an approval date without digits while the
\* registry has a date) produces a row and never raises.
C25_ValidateNeverRaises == bank_pc # "validate raised"

\* C26: a registry row whose area is missing, zero or negative is treated as
\* absent: the registry area _validate_contract_area compares with is a positive
\* number, and such a row never yields a 'correct' contract-area row.
C26_RegistryAreaPositive ==
    (Returned /\ Field = "contract_area" /\ Status = "correct") =>
        ContractRegistryArea(parse_floor_string(parsed_data.floor)[1], floor_result, area_result)[1] > 0

\* the floor test of the area lookup of _judge_usage (lines 1811-1836) on the
\* stripped label s
JudgeUsageAreaMatch(sf, s) ==
    IF sf < 0
    THEN LET n == str(abs(sf)) IN
         \/ s = <<"ji", "ha">> \o n \o <<"cheung">> \/ s = <<"ji", "ha">> \o n
         \/ s = <<"ji">> \o n \o <<"cheung">> \/ s = <<"ji">> \o n
         \/ lower(s) = <<"b">> \o n \/ lower(s) = <<"b">> \o n \o <<"f">>
         \/ s = <<"ji", "ha">> \o n \o <<"F">>
         \/ s = <<"-">> \o n \/ s = <<"-">> \o n \o <<"cheung">> \/ s = <<"-">> \o n \o <<"F">>
    ELSE \/ s = str(sf) \/ s = str(sf) \o <<"cheung">> \/ s = str(sf) \o <<"F">>
         \/ startswith(s, str(sf) \o <<"cheung">>)
         \/ sf = 1 /\ (Contains(s, <<"1", "cheung">>) \/ s = <<"1">> \/ startswith(s, <<"1", "cheung">>))

\* the floor test of _get_all_units_on_floor (lines 3047-3071) on the stripped
\* label s
UnitsFloorMatch(sf, s) ==
    IF sf < 0
    THEN LET n == str(abs(sf)) IN
         \/ s = <<"ji", "ha">> \o n \o <<"cheung">> \/ s = <<"ji", "ha">> \o n
         \/ s = <<"ji">> \o n \o <<"cheung">> \/ s = <<"ji">> \o n
         \/ lower(s) = <<"b">> \o n
         \/ s = <<"-">> \o n
    ELSE s = str(sf) \/ s = str(sf) \o <<"cheung">> \/ s = <<"ji", "sang">> \o str(sf) \o <<"cheung">>

(***************************************************************************)
(* The floor tests written inline against match_floor.                     *)
(***************************************************************************)
\* C27: every inline floor test (the area lookup of _judge_usage, the lookup of
\* _get_floor_area_from_api, _get_all_units_on_floor) accepts a registry row for
\* level n exactly when match_floor(n, L) is true of its label L: none accepts
\* '11층' or '지하1층' for level 1 and all accept '지상1'.
C27_InlineTestsAgree ==
    (floor_pc = "matched" /\ search_floor # 0) =>
        /\ JudgeUsageAreaMatch(search_floor, strip(floor_str)) = is_match[1]
        /\ ApiFloorMatch(search_floor, strip(floor_str)) = is_match[1]
        /\ UnitsFloorMatch(search_floor, strip(floor_str)) = is_match[1]

(***************************************************************************)
(* The diagnostics of the lookup.                                          *)
(***************************************************************************)
\* C28: same_ho_other_floors lists exactly the exclusive rows whose unit label
\* matches the requested one and whose floor differs from the requested floor; a
\* row on the requested floor (e.g. '2층' for level 2) is never listed.
C28_SameFloorNeverListed ==
    (area_pc = "looked_up" /\ _floor_search_info # None) =>
        \A i \in 1..Len(area_result) :
            match_floor(SearchFloorOf(floor), strip(FloorLabel(area_result[i]))) =>
                \A j \in 1..Len(_floor_search_info[1].same_ho_other_floors) :
                    _floor_search_info[1].same_ho_other_floors[j] # strip(FloorLabel(area_result[i])) \o <<" ">> \o strip(area_result[i].hoNm)

(***************************************************************************)
(* Two calls of _compare_areas in progress on the same instance: each call *)
(* has its own arguments and locals, the attribute _floor_search_info is   *)
(* the instance's.                                                         *)
(***************************************************************************)
\* two calls, each for a reported area or none, the unit '202' or none, floor 1
\* or 2 and one of three area tables
InitConcurrent ==
    /\ runs \in [1..2 ->
            {[parsed |-> [area_m2 |-> k, actual_area_m2 |-> None, ho |-> h], floor |-> Some(f), area_result |-> t,
              pc |-> "ready", comparison |-> None] :
                k \in {None, Some(3000)}, h \in {<< >>, <<"2", "0", "2">>}, f \in {1, 2},
                t \in {<<AreaRow(<<"1", "cheung">>, 1, << >>, <<"1">>, <<"jeon", "yu">>, <<"so", "mae", "jeom">>, Some(8000))>>,
                       <<AreaRow(<<"2", "cheung">>, 2, <<"2", "0", "2", "ho">>, <<"1">>, <<"jeon", "yu">>, <<"sa", "mu", "so">>, Some(3000))>>,
                       <<AreaRow(<<"2", "cheung">>, 2, <<"2", "0", "1", "ho">>, <<"1">>, <<"jeon", "yu">>, <<"sa", "mu", "so">>, Some(3000)),
                         AreaRow(<<"3", "cheung">>, 3, <<"2", "0", "2", "ho">>, <<"1">>, <<"jeon", "yu">>, <<"sa", "mu", "so">>, Some(5000))>>}}]
    /\ _floor_search_info = None
    /\ parsed = [area_m2 |-> None, actual_area_m2 |-> None, ho |-> << >>]
    /\ floor = None
    /\ floor_result = << >> /\ area_result = << >> /\ unit_result = << >>
    /\ registry_area = None /\ area_comparison = None
    /\ area_pc = "idle"
    /\ FloorIdle /\ UsageIdle
    /\ BankIdle
    /\ AppIdle

\* a call runs from its entry to the return of _get_floor_area_from_api (line
\* 1976), which has stored self._floor_search_info (line 2818); without a
\* reported area it returns None at once (lines 1957-1959)
CompareAreasLookup ==
    /\ \E t \in DOMAIN runs :
        /\ runs[t].pc = "ready"
        /\ IF runs[t].parsed.area_m2 = None \/ runs[t].parsed.area_m2 = Some(0)
           THEN /\ runs' = [runs EXCEPT ![t].pc = "returned"]
                /\ UNCHANGED _floor_search_info
           ELSE /\ runs' = [runs EXCEPT ![t].pc = "looked_up"]
                /\ _floor_search_info' = Some(FloorSearchInfo(<< >>, runs[t].floor, runs[t].area_result, runs[t].parsed.ho, << >>))
    /\ UNCHANGED <<parsed, floor, floor_result, area_result, unit_result, registry_area, area_comparison, area_pc>>
    /\ UNCHANGED floor_vars
    /\ UNCHANGED usage_vars
    /\ UNCHANGED bank_vars
    /\ UNCHANGED app_vars

\* the call goes on from the return of the lookup to its own return: the dict is
\* built from its locals and self._floor_search_info is attached as it is read
\* then (lines 2299-2300 and 2343-2344)
CompareAreasReturn ==
    /\ \E t \in DOMAIN runs :
        /\ runs[t].pc = "looked_up"
        /\ runs' = [runs EXCEPT ![t].pc = "returned",
                                ![t].comparison = Some([Comparison(runs[t].parsed, << >>, runs[t].floor, runs[t].area_result, << >>)
                                                            EXCEPT !.floor_search_info = _floor_search_info[1]])]
    /\ UNCHANGED <<parsed, floor, floor_result, area_result, unit_result, _floor_search_info, registry_area, area_comparison, area_pc>>
    /\ UNCHANGED floor_vars
    /\ UNCHANGED usage_vars
    /\ UNCHANGED bank_vars
    /\ UNCHANGED app_vars

NextConcurrent == CompareAreasLookup \/ CompareAreasReturn

SpecConcurrent == InitConcurrent /\ [][NextConcurrent]_vars

\* C23: two runs of _compare_areas executed concurrently on one PropertyAdSystem
\* instance need no synchronization: the dict each run returns, the attached
\* floor_search_info included, is computed only from the run's own arguments.
C23_RunsIndependent ==
    \A t \in DOMAIN runs :
        (runs[t].pc = "returned" /\ runs[t].comparison # None) =>
            runs[t].comparison[1] = Comparison(runs[t].parsed, << >>, runs[t].floor, runs[t].area_result, << >>)

\* ---------------------------------------------------------------------------
\* the result window: the area line of the generated text and the area the user
\* picks in it (property_ad_system.py)

\* the area line of _generate_blog_text (lines 3702-3795) as generate_blog_ad
\* shows it (lines 919-996, _insert_clickable_area_line): with a selection the
\* line holds that area alone; without one every area greater than 0 is shown as
\* a clickable text, the message's area standing in for a missing exclusive area
\* (lines 3706-3707); a line with no area at all reads 확인요망
AreaLine(sel, actual, kakao, registry) ==
    LET kakao_area == IF (kakao = None \/ kakao = Some(0)) /\ actual # None /\ actual # Some(0) THEN actual ELSE kakao
        shown(a) == IF a # None /\ a[1] > 0 THEN a ELSE None
    IN IF sel # None
       THEN [only |-> Some(sel[1].area), actual |-> None, kakao |-> None, registry |-> None]
       ELSE [only |-> None, actual |-> shown(actual), kakao |-> shown(kakao_area), registry |-> shown(registry)]

\* a generated result is on screen: no area is selected (line 402) and the area
\* line offers the areas of the message (parsed) and of the registry
InitUi ==
    /\ parsed \in {[area_m2 |-> k, actual_area_m2 |-> a, ho |-> << >>] :
                     k \in {None, Some(0), Some(3300)}, a \in {None, Some(4500), Some(5000)}}
    /\ registry_area \in {None, Some(3300), Some(3500)}
    /\ selected_area = None
    /\ result_area = Some(AreaLine(None, parsed.actual_area_m2, parsed.area_m2, registry_area))
    /\ ui_pc = "shown"
    /\ floor = None /\ floor_result = << >> /\ area_result = << >> /\ unit_result = << >>
    /\ _floor_search_info = None /\ area_comparison = None /\ area_pc = "idle" /\ runs = << >>
    /\ authenticated = FALSE /\ auth_token = None /\ user_nickname = None
    /\ cookie_checked = FALSE /\ cookie = None /\ now = 0 /\ auth_result = None
    /\ FloorIdle /\ UsageIdle
    /\ BankIdle

\* _on_area_click(area, source, ...): the click on one of the clickable areas of
\* the line (the tags exist only while the line offers the choice); an empty
\* area returns at once; the area and its source are stored and the line is
\* rewritten to the clicked area alone
OnAreaClick ==
    /\ ui_pc \in {"shown", "applied"}
    /\ result_area # None
    /\ \E source \in {"actual", "kakao", "registry"} :
        /\ result_area[1][source] # None
        /\ LET area == result_area[1][source][1]
           IN IF area = 0
              THEN UNCHANGED <<selected_area, result_area>>
              ELSE /\ selected_area' = Some([area |-> area, source |-> source])
                   /\ result_area' = Some([only |-> Some(area), actual |-> None, kakao |-> None, registry |-> None])
    /\ ui_pc' = "clicked"
    /\ UNCHANGED <<authenticated, auth_token, user_nickname, cookie_checked, cookie, now, auth_result>>
    /\ UNCHANGED area_vars
    /\ UNCHANGED floor_vars
    /\ UNCHANGED usage_vars
    /\ UNCHANGED bank_vars

\* _apply_selected_area(area, source): it calls generate_blog_ad() and nothing
\* else. generate_blog_ad empties the result, sets selected_area to None
\* (line 402) and then either leaves (no message text, no address, no registry
\* answer, an exception: lines 411, 437, 484, 537, 1061) or writes the result
\* again, the area line built from the selected_area it has just reset
ApplySelectedArea ==
    /\ ui_pc # "idle"
    /\ selected_area' = None
    /\ \E regenerated \in BOOLEAN :
        result_area' = IF regenerated
                       THEN Some(AreaLine(selected_area', parsed.actual_area_m2, parsed.area_m2, registry_area))
                       ELSE None
    /\ ui_pc' = "applied"
    /\ UNCHANGED <<authenticated, auth_token, user_nickname, cookie_checked, cookie, now, auth_result>>
    /\ UNCHANGED area_vars
    /\ UNCHANGED floor_vars
    /\ UNCHANGED usage_vars
    /\ UNCHANGED bank_vars

NextUi == OnAreaClick \/ ApplySelectedArea

SpecUi == InitUi /\ [][NextUi]_vars

\* C29: when an area has been picked (_on_area_click stored it in selected_area)
\* and the selection is applied through _apply_selected_area, selected_area still
\* holds the picked area and source afterwards, and a regenerated result shows
\* the selected area alone.
C29_SelectionSurvivesApply ==
    [][(selected_area # None /\ ui_pc' = "applied") =>
          /\ selected_area' = selected_area
          /\ (result_area' # None => result_area'[1] = AreaLine(selected_area, parsed.actual_area_m2, parsed.area_m2, registry_area))]_vars

\* ---------------------------------------------------------------------------
\* the web session: login, logout and the check that opens every script run
\* (streamlit_app.py, auth_config.py). Time is counted in days.

\* auth_config.TOKEN_VALIDITY_DAYS
TOKEN_VALIDITY_DAYS == 7

\* the clock is followed up to this day
MaxNow == 8

\* is_token_valid with the day of expiry still counted as valid
is_token_valid_AtExpiry(token_data) ==
    IF token_data = None THEN FALSE
    ELSE IF token_data[1].token = "" \/ token_data[1].expiry = None THEN FALSE
    ELSE IF ~token_data[1].expiry[1].iso THEN FALSE
    ELSE now <= token_data[1].expiry[1].at

\* is_token_valid(token_data): a missing dict, an empty token, an empty expiry
\* and an expiry datetime.fromisoformat cannot read are invalid; otherwise the
\* token is valid while datetime.now() < expiry
is_token_valid(token_data) ==
    IF token_data = None THEN FALSE
    ELSE IF token_data[1].token = "" \/ token_data[1].expiry = None THEN FALSE
    ELSE IF ~token_data[1].expiry[1].iso THEN FALSE
    ELSE now < token_data[1].expiry[1].at

\* a browser opens the page: nothing is in st.session_state; the browser holds
\* no cookie, a cookie saved by an earlier login (token None: it cannot be
\* decoded), or a cookie whose token lacks a part
InitAuth ==
    /\ authenticated = FALSE /\ auth_token = None /\ user_nickname = None
    /\ cookie_checked = FALSE
    /\ auth_result = None
    /\ now \in 0..1
    /\ cookie \in {None, Some([token |-> None, nickname |-> "kim"])}
            \cup {Some([token |-> Some([token |-> "tok", expiry |-> Some([iso |-> TRUE, at |-> e])]), nickname |-> "kim"]) : e \in {0, 1, 2}}
            \cup {Some([token |-> Some([token |-> k, expiry |-> x]), nickname |-> "kim"]) :
                    k \in {"", "tok"}, x \in {None, Some([iso |-> FALSE, at |-> 0])}}
    /\ selected_area = None /\ result_area = None /\ ui_pc = "idle"
    /\ FloorIdle /\ UsageIdle
    /\ AreaIdle
    /\ BankIdle

\* check_authentication(), called at the start of every script run. A session
\* that is not authenticated reads the cookie once (load_auth_token gives the
\* cookie or nothing back) and takes a valid token from it; otherwise a session
\* token is checked, and an invalid one is dropped together with the cookie;
\* otherwise the session's authenticated flag is returned. auth_result is the
\* value returned and the day of the call.
CheckAuthentication ==
    /\ \E cookie_data \in {None, cookie} :
        LET read_cookie == ~authenticated /\ ~cookie_checked
            token_data == IF cookie_data # None THEN cookie_data[1].token ELSE None
        IN  /\ cookie_checked' = (cookie_checked \/ read_cookie)
            /\ IF read_cookie /\ is_token_valid(token_data)
               THEN /\ auth_token' = token_data
                    /\ user_nickname' = Some(cookie_data[1].nickname)
                    /\ authenticated' = TRUE
                    /\ auth_result' = Some([ret |-> TRUE, at |-> now])
                    /\ UNCHANGED cookie
               ELSE IF auth_token # None
               THEN IF is_token_valid(auth_token)
                    THEN /\ authenticated' = TRUE
                         /\ auth_result' = Some([ret |-> TRUE, at |-> now])
                         /\ UNCHANGED <<auth_token, user_nickname, cookie>>
                    ELSE /\ auth_token' = None
                         /\ authenticated' = FALSE
                         /\ cookie' = None
                         /\ auth_result' = Some([ret |-> FALSE, at |-> now])
                         /\ UNCHANGED user_nickname
               ELSE /\ auth_result' = Some([ret |-> authenticated, at |-> now])
                    /\ UNCHANGED <<authenticated, auth_token, user_nickname, cookie>>
    /\ UNCHANGED now
    /\ UNCHANGED <<selected_area, result_area, ui_pc>>
    /\ UNCHANGED floor_vars
    /\ UNCHANGED usage_vars
    /\ UNCHANGED area_vars
    /\ UNCHANGED bank_vars

\* the login form of show_login_page (shown when the check returned False): with
\* a name, a password and verify_password true, a token that expires
\* TOKEN_VALIDITY_DAYS from now is stored in the session and in the cookie and
\* the script is run again; any other submission changes nothing
Login ==
    /\ auth_result # None /\ ~auth_result[1].ret
    /\ \E nickname \in {"", "kim"}, password \in {"", "wrong", "right"} :
        IF nickname # "" /\ password = "right"
        THEN LET token_data == Some([token |-> "tok", expiry |-> Some([iso |-> TRUE, at |-> now + TOKEN_VALIDITY_DAYS])])
             IN  /\ auth_token' = token_data
                 /\ authenticated' = TRUE
                 /\ user_nickname' = Some(nickname)
                 /\ cookie' = Some([token |-> token_data, nickname |-> nickname])
                 /\ auth_result' = None
        ELSE UNCHANGED <<auth_token, authenticated, user_nickname, cookie, auth_result>>
    /\ UNCHANGED <<cookie_checked, now>>
    /\ UNCHANGED <<selected_area, result_area, ui_pc>>
    /\ UNCHANGED floor_vars
    /\ UNCHANGED usage_vars
    /\ UNCHANGED area_vars
    /\ UNCHANGED bank_vars

\* the logout button of show_feedback_sidebar (shown when the check returned
\* True): the session is cleared, the cookie deleted, the script run again
Logout ==
    /\ auth_result # None /\ auth_result[1].ret
    /\ authenticated' = FALSE
    /\ auth_token' = None
    /\ user_nickname' = None
    /\ cookie' = None
    /\ auth_result' = None
    /\ UNCHANGED <<cookie_checked, now>>
    /\ UNCHANGED <<selected_area, result_area, ui_pc>>
    /\ UNCHANGED floor_vars
    /\ UNCHANGED usage_vars
    /\ UNCHANGED area_vars
    /\ UNCHANGED bank_vars

\* a day passes (datetime.now() as is_token_valid and create_token_data read it)
Tick ==
    /\ now < MaxNow
    /\ now' = now + 1
    /\ UNCHANGED <<authenticated, auth_token, user_nickname, cookie_checked, cookie, auth_result>>
    /\ UNCHANGED <<selected_area, result_area, ui_pc>>
    /\ UNCHANGED floor_vars
    /\ UNCHANGED usage_vars
    /\ UNCHANGED area_vars
    /\ UNCHANGED bank_vars

\* the page is opened again: st.session_state starts empty, the cookie stays
NewSession ==
    /\ cookie_checked
    /\ authenticated' = FALSE /\ auth_token' = None /\ user_nickname' = None
    /\ cookie_checked' = FALSE
    /\ auth_result' = None
    /\ UNCHANGED <<cookie, now>>
    /\ UNCHANGED <<selected_area, result_area, ui_pc>>
    /\ UNCHANGED floor_vars
    /\ UNCHANGED usage_vars
    /\ UNCHANGED area_vars
    /\ UNCHANGED bank_vars

NextAuth == CheckAuthentication \/ Login \/ Logout \/ Tick \/ NewSession

SpecAuth == InitAuth /\ [][NextAuth]_vars

\* the session holds a token whose expiry lies in the future
TokenLive(token_data) ==
    /\ token_data # None
    /\ token_data[1].token # ""
    /\ token_data[1].expiry # None
    /\ token_data[1].expiry[1].iso
    /\ now < token_data[1].expiry[1].at

\* the session's token has expired
TokenExpired == auth_token # None /\ ~TokenLive(auth_token)

\* the state logout leaves: session cleared and cookie deleted
LoggedOut == ~authenticated /\ auth_token = None /\ user_nickname = None /\ cookie = None

\* C30: in every state reachable through login, logout and check_authentication,
\* a call of check_authentication returns true only if the session then holds a
\* token whose expiry lies in the future; a call made once the session's token
\* has expired or the user has logged out returns false and leaves
\* authenticated = false and auth_token = None.
C30_CheckAuthentication ==
    [][(auth_result' # None /\ auth_result' # auth_result) =>
          /\ (auth_result'[1].ret => authenticated' /\ TokenLive(auth_token'))
          /\ ((TokenExpired \/ LoggedOut) =>
                ~auth_result'[1].ret /\ ~authenticated' /\ auth_token' = None)]_vars

\* a check has returned false for a session whose token has expired: the token
\* is gone, the name stored with it is still in the session
C30_Witness ==
    /\ auth_result # None /\ ~auth_result[1].ret
    /\ now >= TOKEN_VALIDITY_DAYS
    /\ ~authenticated /\ auth_token = None /\ user_nickname # None

====
